---- MODULE Spec2Model ----
(***************************************************************************)
(* Bridge between a TanStack DB collection (push based: status, entries,   *)
(* change subscription) and an Effect Atom cell (pull based: read          *)
(* function, setSelf, addFinalizer), as implemented in                     *)
(* src/src/atom-tanstack-db.ts.                                            *)
(*                                                                         *)
(* The specifications of the module, over one set of variables:           *)
(*   TranslateSpec  the status translation applied to enumerated inputs    *)
(*   Spec           one bridge cell over its backing collection            *)
(*   CondSpec       a makeQueryConditional cell next to a makeQuery cell   *)
(*   UnsafeSpec     a makeQueryUnsafe cell over its makeQuery cell         *)
(*   OwnSpec        two makeQuery cells and the collections they create    *)
(*   PairSpec       two makeCollectionAtom cells over two collections      *)
(*   DispatchSpec   the subscribers of one makeCollectionAtom cell         *)
(*   RoundSpec      inserts followed by matching deletes                   *)
(*   TwinSpec       two makeQuery cells differing in suspendOnWaiting      *)
(***************************************************************************)
EXTENDS Integers, Sequences, FiniteSets, TLC

\* ------------------------------------------------------------------ bounds
MaxEntities == 3        \* entity keys 1..MaxEntities
MaxListeners == 2       \* registry subscribers attached to one cell
MaxChain == 2           \* builder methods a query descriptor chains
MaxColls == 3           \* live query collections created in one behaviour
MaxDispatched == 3      \* values one cell dispatches in one behaviour
MaxValues == 3          \* values one cell of TwinSpec produces in one behaviour

Keys == 1..MaxEntities

\* ------------------------------------------------------- collaborator data
\* CollectionStatus of @tanstack/db as the bridge reads it.
Statuses == {"idle", "loading", "ready", "error", "cleaned-up"}

\* Sequences over S without repetition, up to n elements (a keyed entity set
\* in iteration order).
RECURSIVE DistinctSeqs(_, _)
DistinctSeqs(S, n) ==
    IF n = 0 \/ S = {} THEN {<<>>}
    ELSE {<<>>} \cup UNION {{<<x>> \o t : t \in DistinctSeqs(S \ {x}, n - 1)} : x \in S}

KeySeqs == DistinctSeqs(Keys, MaxEntities)

\* The entity stored under key k: an opaque value object.
ValueOf(k) == [id |-> k]

\* collection.entries(): the (key, value) pairs in iteration order.
CollectionEntries(keys) == [i \in 1..Len(keys) |-> <<keys[i], ValueOf(keys[i])>>]

\* ------------------------------------------------------------ Result values
\* Result.initial / Result.success / Result.fail, in one record shape.  A
\* Success carries its projection: shape "array" with all values, shape
\* "single" with one value, shape "undefined" with none.
ResultInitial(w) ==
    [tag |-> "Initial", waiting |-> w, shape |-> "none", items |-> <<>>, message |-> ""]

ResultSuccess(sh, its) ==
    [tag |-> "Success", waiting |-> FALSE, shape |-> sh, items |-> its, message |-> ""]

ResultFail(msg) ==
    [tag |-> "Failure", waiting |-> FALSE, shape |-> "none", items |-> <<>>, message |-> msg]

\* The value of a cell that returned undefined, and of a node that holds nothing.
Absent == [tag |-> "Absent", waiting |-> FALSE, shape |-> "none", items |-> <<>>, message |-> ""]
NoValue == [tag |-> "NoValue", waiting |-> FALSE, shape |-> "none", items |-> <<>>, message |-> ""]

\* A plain value that is not undefined: what a Success carried.
PlainValue(sh, its) ==
    [tag |-> "Value", waiting |-> FALSE, shape |-> sh, items |-> its, message |-> ""]

\* The outcome of a call that threw.
Thrown == [tag |-> "Thrown", waiting |-> FALSE, shape |-> "none", items |-> <<>>, message |-> ""]

\* MapValues that yields the values in reverse order.
MapValuesReversed(es) == [i \in 1..Len(es) |-> es[Len(es) + 1 - i][2]]

\* entries.map(([_, value]) => value)
MapValues(es) == [i \in 1..Len(es) |-> es[i][2]]

\* ProjectArray that reports an empty collection as still waiting.
ProjectArrayWaitsOnEmpty(es) ==
    IF Len(es) = 0 THEN ResultInitial(TRUE) ELSE ResultSuccess("array", MapValues(es))

\* Array projection: Array.from(collection.entries()).map(([_, value]) => value)
ProjectArray(es) == ResultSuccess("array", MapValues(es))

\* ProjectSingle that takes the last entry instead of the first.
ProjectSingleLast(es) ==
    IF Len(es) > 0 THEN ResultSuccess("single", <<es[Len(es)][2]>>)
    ELSE ResultSuccess("undefined", <<>>)

\* ProjectSingle that reports an empty collection as a failure.
ProjectSingleFailsOnEmpty(es) ==
    IF Len(es) > 0 THEN ResultSuccess("single", <<es[1][2]>>)
    ELSE ResultFail("Collection failed to load")

\* ProjectSingle without the length test: entries[0]![1] of an empty array
\* throws a TypeError.
ProjectSingleUnguarded(es) ==
    IF Len(es) > 0 THEN ResultSuccess("single", <<es[1][2]>>)
    ELSE Thrown

\* Single projection: entries.length > 0 ? entries[0][1] : undefined
ProjectSingle(es) ==
    IF Len(es) > 0 THEN ResultSuccess("single", <<es[1][2]>>)
    ELSE ResultSuccess("undefined", <<>>)

\* ProjectQuery that picks the projection from the number of rows instead of
\* config.singleResult.
ProjectQueryByRowCount(isSingleResult, es) ==
    IF Len(es) <= 1
    THEN (IF Len(es) > 0 THEN ResultSuccess("single", <<MapValues(es)[1]>>)
          ELSE ResultSuccess("undefined", <<>>))
    ELSE ResultSuccess("array", MapValues(es))

\* makeQuery: isSingleResult ? entries[0] : entries, over the mapped values
ProjectQuery(isSingleResult, es) ==
    IF isSingleResult
    THEN (IF Len(MapValues(es)) > 0 THEN ResultSuccess("single", <<MapValues(es)[1]>>)
          ELSE ResultSuccess("undefined", <<>>))
    ELSE ResultSuccess("array", MapValues(es))

\* ------------------------------------------------------- status translation
\* The six copies of the status mapping in the source, one operator each:
\* the subscribeChanges callback (the value it pushes with get.setSelf) and
\* the tail of the read function (the value it returns), per constructor.

makeCollectionAtomPushed(st, es) ==
    IF st = "error" THEN ResultFail("Collection failed to load")
    ELSE IF st = "loading" \/ st = "idle" THEN ResultInitial(TRUE)
    ELSE IF st = "cleaned-up" THEN ResultFail("Collection has been cleaned up")
    ELSE ProjectArray(es)

makeCollectionAtomInitial(st, es) ==
    IF st = "error" THEN ResultFail("Collection failed to load")
    ELSE IF st = "loading" \/ st = "idle" THEN ResultInitial(TRUE)
    ELSE IF st = "cleaned-up" THEN ResultFail("Collection has been cleaned up")
    ELSE ProjectArray(es)

makeSingleCollectionAtomPushed(st, es) ==
    IF st = "error" THEN ResultFail("Collection failed to load")
    ELSE IF st = "loading" \/ st = "idle" THEN ResultInitial(TRUE)
    ELSE IF st = "cleaned-up" THEN ResultFail("Collection has been cleaned up")
    ELSE ProjectSingle(es)

\* A read function of makeSingleCollectionAtom whose tail projects the array.
makeSingleCollectionAtomInitialArray(st, es) ==
    IF st = "error" THEN ResultFail("Collection failed to load")
    ELSE IF st = "loading" \/ st = "idle" THEN ResultInitial(TRUE)
    ELSE IF st = "cleaned-up" THEN ResultFail("Collection has been cleaned up")
    ELSE ProjectArray(es)

makeSingleCollectionAtomInitial(st, es) ==
    IF st = "error" THEN ResultFail("Collection failed to load")
    ELSE IF st = "loading" \/ st = "idle" THEN ResultInitial(TRUE)
    ELSE IF st = "cleaned-up" THEN ResultFail("Collection has been cleaned up")
    ELSE ProjectSingle(es)

\* makeQueryPushed without its cleaned-up branch.
makeQueryPushedNoCleanedUp(isSingleResult, st, es) ==
    IF st = "error" THEN ResultFail("Query failed to load")
    ELSE IF st = "loading" \/ st = "idle" THEN ResultInitial(TRUE)
    ELSE ProjectQuery(isSingleResult, es)

makeQueryPushed(isSingleResult, st, es) ==
    IF st = "error" THEN ResultFail("Query failed to load")
    ELSE IF st = "loading" \/ st = "idle" THEN ResultInitial(TRUE)
    ELSE IF st = "cleaned-up" THEN ResultFail("Query collection has been cleaned up")
    ELSE ProjectQuery(isSingleResult, es)

makeQueryInitial(isSingleResult, st, es) ==
    IF st = "error" THEN ResultFail("Query failed to load")
    ELSE IF st = "loading" \/ st = "idle" THEN ResultInitial(TRUE)
    ELSE IF st = "cleaned-up" THEN ResultFail("Query collection has been cleaned up")
    ELSE ProjectQuery(isSingleResult, es)

\* Result.getOrElse that falls back for Initial only and throws on a Failure.
GetOrElseThrowsOnFailure(self, orElse) ==
    IF self.tag = "Success"
    THEN (IF self.shape = "undefined" THEN Absent ELSE PlainValue(self.shape, self.items))
    ELSE IF self.tag = "Initial" THEN orElse
    ELSE Thrown

\* Result.getOrElse(self, orElse): the value of a Success, which may itself be
\* undefined, and the fallback for everything else.
GetOrElse(self, orElse) ==
    IF self.tag = "Success"
    THEN (IF self.shape = "undefined" THEN Absent ELSE PlainValue(self.shape, self.items))
    ELSE orElse

\* makeQueryUnsafe: Result.getOrElse(result, constUndefined)
makeQueryUnsafe(result) == GetOrElse(result, Absent)

\* A cell's configuration: the constructor that made it and, for makeQuery,
\* the created collection's config.singleResult and the startSync option.
Ctors == {"makeCollectionAtom", "makeSingleCollectionAtom", "makeQuery"}

Configs ==
    {[ctor |-> c, singleResult |-> FALSE, startSync |-> "unset"] :
        c \in {"makeCollectionAtom", "makeSingleCollectionAtom"}}
    \cup {[ctor |-> "makeQuery", singleResult |-> s, startSync |-> o] :
        s \in BOOLEAN, o \in {"unset", "true", "false"}}

\* The value the change callback of a cell pushes for (status, key order).
PushedValue(c, st, ks) ==
    IF c.ctor = "makeCollectionAtom" THEN makeCollectionAtomPushed(st, CollectionEntries(ks))
    ELSE IF c.ctor = "makeSingleCollectionAtom"
        THEN makeSingleCollectionAtomPushed(st, CollectionEntries(ks))
    ELSE makeQueryPushed(c.singleResult, st, CollectionEntries(ks))

\* The value the read function of a cell returns for (status, key order).
InitialValue(c, st, ks) ==
    IF c.ctor = "makeCollectionAtom" THEN makeCollectionAtomInitial(st, CollectionEntries(ks))
    ELSE IF c.ctor = "makeSingleCollectionAtom"
        THEN makeSingleCollectionAtomInitial(st, CollectionEntries(ks))
    ELSE makeQueryInitial(c.singleResult, st, CollectionEntries(ks))

\* A callback or read tail that lists the rows before it looks at the status.
CollectionReadsEntriesFirst(c, path, st) ==
    IF c.ctor = "makeQuery" THEN <<"entries", "status", "config.singleResult">>
    ELSE <<"entries", "status">>

\* What the change callback (path "pushed") and the tail of the read function
\* (path "initial") read from the collection, in order.  All six copies read
\* collection.status first and return from the error, loading/idle and
\* cleaned-up branches; only past them do they call collection.entries(),
\* makeQuery after reading config.singleResult.
CollectionReads(c, path, st) ==
    IF st = "error" THEN <<"status">>
    ELSE IF st = "loading" \/ st = "idle" THEN <<"status">>
    ELSE IF st = "cleaned-up" THEN <<"status">>
    ELSE IF c.ctor = "makeQuery" THEN <<"status", "config.singleResult", "entries">>
    ELSE <<"status", "entries">>

\* The kind of error a Failure message reports.
ErrorKind(msg) ==
    IF msg \in {"Collection failed to load", "Query failed to load"} THEN "failed to load"
    ELSE IF msg \in {"Collection has been cleaned up", "Query collection has been cleaned up"}
        THEN "has been cleaned up"
    ELSE "other"

\* ------------------------------------------------------------------- state
VARIABLES
    cfg,         \* configuration of the cell under test (fixed per behaviour)
    status,      \* status of the cell's backing collection ("none": not created)
    keys,        \* keys of the backing collection in iteration order
    phase,       \* "unmounted" (no node), "evaluating" (read function running), "mounted"
    pc,          \* position of the running read function in EvalOrder(cfg)
    sampled,     \* the status the running/last read function sampled ("none": not yet)
    retval,      \* the value the running read function will return
    value,       \* the node's current value, as a reader sees it
    subs,        \* live change subscriptions this cell holds
    unsubCalls,  \* unsubscribe() calls made on the most recently opened subscription
    finalizers,  \* cleanup actions registered with get.addFinalizer
    listeners,   \* registry subscribers attached to the cell
    delivered,   \* the value last delivered to the attached subscribers
    lateCalls,   \* the change callback has run after the cell was finalized
    evalStart,   \* the collection's status when the running/last read function began
    remounted,   \* a read function has started on a cell that had been finalized
    tIn,         \* TranslateSpec: the input of the translation
    tOut,        \* TranslateSpec: its output
    uOut,        \* TranslateSpec: what makeQueryUnsafe makes of that output
    tReads,      \* TranslateSpec: what the path read from the collection, in order
    descr,       \* CondSpec: the query descriptor (fixed per behaviour)
    rstatus,     \* CondSpec: status of the query's result collection(s)
    rkeys,       \* CondSpec: keys of the query's result, in iteration order
    qphase,      \* CondSpec: the makeQuery cell: "unmounted" or "mounted"
    qvalue,      \* CondSpec: the makeQuery cell's value
    kphase,      \* CondSpec: the makeQueryConditional cell: "unmounted", "invalid",
                 \*   "probing", "decided", "mounted", "threw"
    kpos,        \* property accesses and calls the probed descriptor has made
    kobj,        \* what the probed descriptor's expression currently holds
    queryReturnsNull, \* the flag of the same name in makeQueryConditional
    query,       \* what queryFn(proxyBuilder) returned ("none": not yet)
    kvalue,      \* the makeQueryConditional cell's value
    ksubs,       \* live change subscriptions held on behalf of the conditional cell
    kfinalizers, \* cleanup actions registered on behalf of the conditional cell
    kcreated,    \* the current evaluation created a collection
    ksync,       \* the current evaluation started a sync
    reevaluated, \* the conditional cell's read function has run again since its mount
    kthrew,      \* the current evaluation threw
    cbRun,       \* callbacks of the descriptor invoked in the current evaluation
    probeRuns,   \* invocations of the descriptor with the stand-in, this evaluation
    realRuns,    \* invocations of the descriptor with a real builder, this evaluation
    sstatus,     \* UnsafeSpec: status of the source collection the query reads
    skeys,       \* UnsafeSpec: keys of the source collection, in iteration order
    usingle,     \* UnsafeSpec: the query's config.singleResult (fixed per behaviour)
    uphase,      \* UnsafeSpec: the makeQueryUnsafe cell: "unmounted", "evaluating",
                 \*   "mounted", "invalid"
    uinner,      \* the value of the makeQuery cell the unsafe cell last read
    uvalue,      \* the makeQueryUnsafe cell's value
    ustatus,     \* status of that makeQuery cell's collection ("none": no such cell)
    usubs,       \* live change subscriptions held on behalf of the unsafe cell
    ucreated,    \* live query collections created for the unsafe cell since its mount (2: two or more)
    osrc,        \* OwnSpec: status of the source collection both queries read
    okeys,       \* OwnSpec: keys of the source collection, in iteration order
    ogc,         \* OwnSpec: the gcTime option of both cells (fixed per behaviour)
    ophase,      \* OwnSpec: per makeQuery cell, "unmounted" or "mounted"
    ocoll,       \* per cell, the collection its last evaluation created (0: none)
    ovalue,      \* per cell, its value
    ocreated,    \* live query collections created so far
    cstat,       \* per live query collection, its status ("none": not created)
    csubs,       \* per live query collection, the cells holding a subscription to it
    ostart,      \* OwnSpec: the startSync option of both cells (fixed per behaviour)
    ccfg,        \* per live query collection, the configuration it was created with
    pstat,       \* PairSpec: per collection, its status
    pkeys,       \* PairSpec: per collection, its keys in iteration order
    pphase,      \* PairSpec: per makeCollectionAtom cell, "unmounted" or "mounted"
    pvalue,      \* per cell, its value
    pdeleted,    \* per collection, whether it ever committed a delete
    dstatus,     \* DispatchSpec: status of the collection
    dkeys,       \* DispatchSpec: keys of the collection, in iteration order
    dmounted,    \* the makeCollectionAtom cell has a node that ran the read function
    dvalue,      \* the cell's value
    isolates,    \* whether the runtime shields a dispatch from a listener that throws
    regs,        \* the cell's subscribers, in the order they registered
    joined,      \* per subscriber, how many values had been dispatched when it registered
    seen,        \* per subscriber, the values its callback was called with since it registered
    hist,        \* the values the cell has dispatched, in order
    notes,       \* the notifications the collection delivered to the cell's callback
    pushes,      \* the values the callback pushed with get.setSelf
    dq,          \* the listeners the running dispatch has still to call
    called,      \* the listeners the running or last dispatch has called, in order
    threw,       \* a subscriber's callback has thrown
    rtcfg,       \* RoundSpec: the constructor of the cell (array projection)
    rtkeys,      \* RoundSpec: keys of the ready collection, in iteration order
    rtvalue,     \* the mounted cell's value
    rtn,         \* the number of insert and of delete transactions of the round trip
    rtins,       \* insert transactions committed
    rtdel,       \* delete transactions committed
    wsrc,        \* TwinSpec: status of the source collection
    wkeys,       \* TwinSpec: keys of the source's rows, in iteration order
    wopts,       \* TwinSpec: per cell, the options object given to makeQuery
    wphase,      \* TwinSpec: per cell, unmounted or mounted
    wstat,       \* TwinSpec: per cell, the status of its live query collection
    wcfg,        \* TwinSpec: per cell, the configuration its last createLiveQueryCollection call got
    wops,        \* TwinSpec: per cell, what it did to its collections, in order
    wvals        \* TwinSpec: per cell, the values it produced, in order

bridgeVars ==
    <<cfg, status, keys, phase, pc, sampled, retval, value, subs, unsubCalls, finalizers,
      listeners, delivered, lateCalls, evalStart, remounted>>
transVars == <<tIn, tOut, uOut, tReads>>
condVars ==
    <<descr, rstatus, rkeys, qphase, qvalue, kphase, kpos, kobj, queryReturnsNull, query,
      kvalue, ksubs, kfinalizers, kcreated, ksync, reevaluated, kthrew, cbRun, probeRuns,
      realRuns>>
unsafeVars == <<sstatus, skeys, usingle, uphase, uinner, uvalue, ustatus, usubs, ucreated>>
\* off...: what the actions of one specification leave alone: the variables
\* of all the others
ownVars == <<osrc, okeys, ogc, ophase, ocoll, ovalue, ocreated, cstat, csubs, ostart, ccfg>>
pairVars == <<pstat, pkeys, pphase, pvalue, pdeleted>>
dispatchVars == <<dstatus, dkeys, dmounted, dvalue, isolates, regs, joined, seen, hist, notes, pushes, dq, called, threw>>
roundVars == <<rtcfg, rtkeys, rtvalue, rtn, rtins, rtdel>>
twinVars == <<wsrc, wkeys, wopts, wphase, wstat, wcfg, wops, wvals>>
offBridge == <<transVars, condVars, unsafeVars, ownVars, pairVars, dispatchVars, roundVars, twinVars>>
offTrans == <<bridgeVars, condVars, unsafeVars, ownVars, pairVars, dispatchVars, roundVars, twinVars>>
offCond == <<bridgeVars, transVars, unsafeVars, ownVars, pairVars, dispatchVars, roundVars, twinVars>>
offUnsafe == <<bridgeVars, transVars, condVars, ownVars, pairVars, dispatchVars, roundVars, twinVars>>
offOwn == <<bridgeVars, transVars, condVars, unsafeVars, pairVars, dispatchVars, roundVars, twinVars>>
offPair == <<bridgeVars, transVars, condVars, unsafeVars, ownVars, dispatchVars, roundVars, twinVars>>
offDispatch == <<bridgeVars, transVars, condVars, unsafeVars, ownVars, pairVars, roundVars, twinVars>>
offRound == <<bridgeVars, transVars, condVars, unsafeVars, ownVars, pairVars, dispatchVars, twinVars>>
offTwin == <<bridgeVars, transVars, condVars, unsafeVars, ownVars, pairVars, dispatchVars, roundVars>>
vars == <<bridgeVars, transVars, condVars, unsafeVars, ownVars, pairVars, dispatchVars, roundVars, twinVars>>

Min(a, b) == IF a < b THEN a ELSE b

\* ------------------------------------------------------ the read function
\* The statements of a read function, in source order.  "startSync":
\* collection.startSyncImmediate(); "create": createLiveQueryCollection(...);
\* "subscribe": collection.subscribeChanges(callback); "addFinalizer":
\* get.addFinalizer(() => subscription.unsubscribe()); "sample": read
\* collection.status (and entries) and return the translated value.
\* EvalOrder with the status sampled before the callback is registered.
EvalOrderSampleBeforeSubscribe(c) ==
    IF c.ctor = "makeQuery" THEN <<"create", "sample", "subscribe", "addFinalizer">>
    ELSE <<"startSync", "sample", "subscribe", "addFinalizer">>

\* EvalOrder with the status sampled first of all.
EvalOrderSampleFirst(c) ==
    IF c.ctor = "makeQuery" THEN <<"create", "sample", "subscribe", "addFinalizer">>
    ELSE <<"sample", "startSync", "subscribe", "addFinalizer">>

EvalOrder(c) ==
    IF c.ctor = "makeQuery" THEN <<"create", "subscribe", "addFinalizer", "sample">>
    ELSE <<"startSync", "subscribe", "addFinalizer", "sample">>

StepName == EvalOrder(cfg)[pc]

\* CreateStartSync with the default the other way round.
CreateStartSyncOnlyIfAsked(opt) == opt = "true"

\* startSync: options?.startSync ?? true
CreateStartSync(opt) == IF opt = "unset" THEN TRUE ELSE opt = "true"

\* After a statement of the read function: go to the next one, or return rv.
\* Returning stores rv in the node and notifies the attached subscribers.
Advance(rv) ==
    IF pc = Len(EvalOrder(cfg))
    THEN /\ phase' = "mounted"
         /\ pc' = 0
         /\ retval' = NoValue
         /\ value' = rv
         /\ delivered' = IF listeners > 0 THEN rv ELSE delivered
    ELSE /\ pc' = pc + 1
         /\ retval' = rv
         /\ UNCHANGED <<phase, value, delivered>>

\* registry.get(atom) on a cell that has no node: the read function starts.
BeginEval ==
    /\ phase = "unmounted"
    /\ phase' = "evaluating"
    /\ pc' = 1
    /\ retval' = NoValue
    /\ sampled' = "none"
    /\ evalStart' = status
    /\ remounted' = (remounted \/ unsubCalls > 0 \/ subs > 0)
    /\ UNCHANGED <<cfg, status, keys, value, subs, unsubCalls, finalizers, listeners,
                   delivered, lateCalls, offBridge>>

\* EvalStartSync whose trigger also drops the collection's entries.
EvalStartSyncClears ==
    /\ phase = "evaluating" /\ StepName = "startSync"
    /\ status' = IF status = "idle" THEN "loading" ELSE status
    /\ keys' = <<>>
    /\ Advance(retval)
    /\ UNCHANGED <<cfg, sampled, subs, unsubCalls, finalizers, listeners,
                   lateCalls, evalStart, remounted, offBridge>>

\* collection.startSyncImmediate(): starts the sync of an idle collection; a
\* collection whose sync has started keeps its status.  A cleaned-up
\* collection is restarted or left alone, as the collaborator decides.
EvalStartSync ==
    /\ phase = "evaluating" /\ StepName = "startSync"
    /\ \E st \in Statuses :
        /\ \/ status = "idle" /\ st = "loading"
           \/ status = "cleaned-up" /\ st \in {"cleaned-up", "loading"}
           \/ status \in {"loading", "ready", "error"} /\ st = status
        /\ status' = st
    /\ Advance(retval)
    /\ UNCHANGED <<cfg, keys, sampled, subs, unsubCalls, finalizers, listeners,
                   lateCalls, evalStart, remounted, offBridge>>

\* createLiveQueryCollection({query, startSync, gcTime}): a brand-new
\* collection, loading when its sync is started and idle otherwise.
EvalCreate ==
    /\ phase = "evaluating" /\ StepName = "create"
    /\ status' = IF CreateStartSync(cfg.startSync) THEN "loading" ELSE "idle"
    /\ keys' = <<>>
    /\ Advance(retval)
    /\ UNCHANGED <<cfg, sampled, subs, unsubCalls, finalizers, listeners, lateCalls,
                   evalStart, remounted, offBridge>>

\* The cell's live subscriptions after one more subscribeChanges call.
SubscribeChanges(n) == n + 1

\* AddFinalizer that registers nothing.
AddFinalizerForgets(n) == n

\* The registered cleanup actions after one more get.addFinalizer call.
AddFinalizer(n) == n + 1

\* collection.subscribeChanges(callback): a new live subscription.
EvalSubscribe ==
    /\ phase = "evaluating" /\ StepName = "subscribe"
    /\ subs' = SubscribeChanges(subs)
    /\ unsubCalls' = 0
    /\ Advance(retval)
    /\ UNCHANGED <<cfg, status, keys, sampled, finalizers, listeners, lateCalls,
                   evalStart, remounted, offBridge>>

\* A read function that registers the cleanup on the ready branch only.
EvalAddFinalizerWhenReady ==
    /\ phase = "evaluating" /\ StepName = "addFinalizer"
    /\ finalizers' = IF status = "ready" THEN AddFinalizer(finalizers) ELSE finalizers
    /\ Advance(retval)
    /\ UNCHANGED <<cfg, status, keys, sampled, subs, unsubCalls, listeners, lateCalls,
                   evalStart, remounted, offBridge>>

\* get.addFinalizer(() => subscription.unsubscribe())
EvalAddFinalizer ==
    /\ phase = "evaluating" /\ StepName = "addFinalizer"
    /\ finalizers' = AddFinalizer(finalizers)
    /\ Advance(retval)
    /\ UNCHANGED <<cfg, status, keys, sampled, subs, unsubCalls, listeners, lateCalls,
                   evalStart, remounted, offBridge>>

\* const status = collection.status ... return Result.xxx(...)
EvalSample ==
    /\ phase = "evaluating" /\ StepName = "sample"
    /\ sampled' = status
    /\ Advance(InitialValue(cfg, status, keys))
    /\ UNCHANGED <<cfg, status, keys, subs, unsubCalls, finalizers, listeners, lateCalls,
                   evalStart, remounted, offBridge>>

\* ------------------------------------------------------ the cell's runtime
\* The registered cleanup action: subscription.unsubscribe().  The first call
\* on a subscription releases it; a further call finds it released.
\* UnsubscribeLive that releases nothing.
UnsubscribeLiveKeeps(n, calls) == n

UnsubscribeLive(n, calls) == IF calls = 0 /\ n > 0 THEN n - 1 ELSE n

\* The node of a cell nobody listens to is removed: the runtime runs each
\* registered cleanup action once and drops the node's value.
Teardown ==
    /\ phase = "mounted"
    /\ listeners = 0
    /\ phase' = "unmounted"
    /\ value' = NoValue
    /\ subs' = IF finalizers > 0 THEN UnsubscribeLive(subs, unsubCalls) ELSE subs
    /\ unsubCalls' = Min(unsubCalls + finalizers, 2)
    /\ finalizers' = 0
    /\ evalStart' = "none"
    /\ sampled' = "none"
    /\ UNCHANGED <<cfg, status, keys, pc, retval, listeners, delivered, lateCalls,
                   remounted, offBridge>>

\* registry.subscribe(atom, f): one more subscriber; the cell is not evaluated.
AddListener ==
    /\ phase # "evaluating"
    /\ listeners < MaxListeners
    /\ listeners' = listeners + 1
    /\ UNCHANGED <<cfg, status, keys, phase, pc, sampled, retval, value, subs, unsubCalls,
                   finalizers, delivered, lateCalls, evalStart, remounted, offBridge>>

\* The function registry.subscribe returned: the subscriber detaches.
RemoveListener ==
    /\ phase # "evaluating"
    /\ listeners > 0
    /\ listeners' = listeners - 1
    /\ delivered' = IF listeners = 1 THEN NoValue ELSE delivered
    /\ UNCHANGED <<cfg, status, keys, phase, pc, sampled, retval, value, subs, unsubCalls,
                   finalizers, lateCalls, evalStart, remounted, offBridge>>

\* ------------------------------------------------------- the collaborator
\* The collection calls every registered change callback, synchronously.  The
\* callback reads collection.status and pushes the translated value with
\* get.setSelf; the node hands a pushed value to its subscribers.
\* Notify whose callback returns early when the content did not change.
NotifyContentOnly(st, ks) ==
    LET fires == subs > 0 /\ ks # keys
        live == phase # "unmounted"
        v == PushedValue(cfg, st, ks)
    IN  /\ value' = IF fires /\ live THEN v ELSE value
        /\ delivered' = IF fires /\ live /\ listeners > 0 THEN v ELSE delivered
        /\ lateCalls' = (lateCalls \/ (fires /\ ~live))

\* Notify whose callback projects the rows the notification reports as
\* changed instead of iterating collection.entries().
NotifyChangedRows(st, ks) ==
    LET fires == subs > 0
        live == phase # "unmounted"
        had == {keys[i] : i \in 1..Len(keys)}
        v == PushedValue(cfg, st, SelectSeq(ks, LAMBDA k : k \notin had))
    IN  /\ value' = IF fires /\ live THEN v ELSE value
        /\ delivered' = IF fires /\ live /\ listeners > 0 THEN v ELSE delivered
        /\ lateCalls' = (lateCalls \/ (fires /\ ~live))

Notify(st, ks) ==
    LET fires == subs > 0
        live == phase # "unmounted"
        v == PushedValue(cfg, st, ks)
    IN  /\ value' = IF fires /\ live THEN v ELSE value
        /\ delivered' = IF fires /\ live /\ listeners > 0 THEN v ELSE delivered
        /\ lateCalls' = (lateCalls \/ (fires /\ ~live))

\* The sync of an idle collection is started by its owner.
CollStartSync ==
    /\ status = "idle"
    /\ status' = "loading"
    /\ UNCHANGED <<cfg, keys, phase, pc, sampled, retval, value, subs, unsubCalls, finalizers,
                   listeners, delivered, lateCalls, evalStart, remounted, offBridge>>

\* begin(); write({type: "insert", value}); commit()
CollInsert(k) ==
    /\ status \in {"loading", "ready"}
    /\ k \notin {keys[i] : i \in 1..Len(keys)}
    /\ keys' = Append(keys, k)
    /\ Notify(status, Append(keys, k))
    /\ UNCHANGED <<cfg, status, phase, pc, sampled, retval, subs, unsubCalls, finalizers,
                   listeners, evalStart, remounted, offBridge>>

\* begin(); write({type: "delete", value}); commit()
CollDelete(k) ==
    /\ status \in {"loading", "ready"}
    /\ k \in {keys[i] : i \in 1..Len(keys)}
    /\ keys' = SelectSeq(keys, LAMBDA x : x # k)
    /\ Notify(status, SelectSeq(keys, LAMBDA x : x # k))
    /\ UNCHANGED <<cfg, status, phase, pc, sampled, retval, subs, unsubCalls, finalizers,
                   listeners, evalStart, remounted, offBridge>>

\* markReady(): a loading collection becomes ready and tells its subscribers.
CollMarkReady ==
    /\ status = "loading"
    /\ status' = "ready"
    /\ Notify("ready", keys)
    /\ UNCHANGED <<cfg, keys, phase, pc, sampled, retval, subs, unsubCalls, finalizers,
                   listeners, evalStart, remounted, offBridge>>

\* The sync fails: the status becomes error.  The change subscription carries
\* content changes; whether this status change reaches it is the
\* collaborator's choice.
CollFail ==
    /\ status \in {"loading", "ready"}
    /\ status' = "error"
    /\ \/ Notify("error", keys)
       \/ UNCHANGED <<value, delivered, lateCalls>>
    /\ UNCHANGED <<cfg, keys, phase, pc, sampled, retval, subs, unsubCalls, finalizers,
                   listeners, evalStart, remounted, offBridge>>

\* collection.cleanup(): the collection drops its data and becomes cleaned-up,
\* again with or without a call of the change callbacks.
CollCleanup ==
    /\ status \in {"loading", "ready", "error"}
    /\ status' = "cleaned-up"
    /\ keys' = <<>>
    /\ \/ Notify("cleaned-up", <<>>)
       \/ UNCHANGED <<value, delivered, lateCalls>>
    /\ UNCHANGED <<cfg, phase, pc, sampled, retval, subs, unsubCalls, finalizers, listeners,
                   evalStart, remounted, offBridge>>

\* ------------------------------------------------------------ Spec: a cell
BridgeIdle ==
    /\ cfg = CHOOSE c \in Configs : c.ctor = "makeCollectionAtom"
    /\ status = "idle"
    /\ keys = <<>>
    /\ phase = "unmounted"
    /\ pc = 0
    /\ sampled = "none"
    /\ retval = NoValue
    /\ value = NoValue
    /\ subs = 0
    /\ unsubCalls = 0
    /\ finalizers = 0
    /\ listeners = 0
    /\ delivered = NoValue
    /\ lateCalls = FALSE
    /\ evalStart = "none"
    /\ remounted = FALSE

\* A query descriptor: the builder methods it chains on the handle it is
\* given, and what it returns: null, undefined, or what it built.
Methods == {"from", "where", "findOne"}

RECURSIVE SeqsUpTo(_, _)
SeqsUpTo(S, n) ==
    IF n = 0 THEN {<<>>}
    ELSE {<<>>} \cup UNION {{<<x>> \o t : t \in SeqsUpTo(S, n - 1)} : x \in S}

Descriptors == [chain : SeqsUpTo(Methods, MaxChain), ret : {"null", "undefined", "built"}]

CondIdle ==
    /\ descr = [chain |-> <<>>, ret |-> "null"]
    /\ rstatus = "loading"
    /\ rkeys = <<>>
    /\ qphase = "unmounted"
    /\ qvalue = NoValue
    /\ kphase = "unmounted"
    /\ kpos = 0
    /\ kobj = "none"
    /\ queryReturnsNull = FALSE
    /\ query = "none"
    /\ kvalue = NoValue
    /\ ksubs = 0
    /\ kfinalizers = 0
    /\ kcreated = FALSE
    /\ ksync = FALSE
    /\ reevaluated = FALSE
    /\ kthrew = FALSE
    /\ cbRun = 0
    /\ probeRuns = 0
    /\ realRuns = 0

UnsafeIdle ==
    /\ sstatus = "loading"
    /\ skeys = <<>>
    /\ usingle = FALSE
    /\ uphase = "unmounted"
    /\ uinner = NoValue
    /\ uvalue = NoValue
    /\ ustatus = "none"
    /\ usubs = 0
    /\ ucreated = 0

\* The two makeQuery cells of OwnSpec and the collections they may create.
Cells == {"a", "b"}
CollIds == 1..MaxColls

\* The configuration of a collection that was not created.
NoConfig == [startSync |-> FALSE, gcTime |-> "none"]

OwnIdle ==
    /\ osrc = "loading"
    /\ okeys = <<>>
    /\ ogc = "unset"
    /\ ophase = [c \in Cells |-> "unmounted"]
    /\ ocoll = [c \in Cells |-> 0]
    /\ ovalue = [c \in Cells |-> NoValue]
    /\ ocreated = 0
    /\ cstat = [i \in CollIds |-> "none"]
    /\ csubs = [i \in CollIds |-> {}]
    /\ ostart = "unset"
    /\ ccfg = [i \in CollIds |-> NoConfig]

\* The two collections of PairSpec; cell c is makeCollectionAtom(collection c).
Pair == {1, 2}

PairIdle ==
    /\ pstat = [j \in Pair |-> "idle"]
    /\ pkeys = [j \in Pair |-> <<>>]
    /\ pphase = [c \in Pair |-> "unmounted"]
    /\ pvalue = [c \in Pair |-> NoValue]
    /\ pdeleted = [j \in Pair |-> FALSE]

\* The subscribers that may attach to the cell of DispatchSpec.
SubIds == 1..MaxListeners

DispatchIdle ==
    /\ dstatus = "loading"
    /\ dkeys = <<>>
    /\ dmounted = FALSE
    /\ dvalue = NoValue
    /\ isolates = FALSE
    /\ regs = <<>>
    /\ joined = [s \in SubIds |-> 0]
    /\ seen = [s \in SubIds |-> <<>>]
    /\ hist = <<>>
    /\ notes = <<>>
    /\ pushes = <<>>
    /\ dq = <<>>
    /\ called = <<>>
    /\ threw = FALSE

RoundIdle ==
    /\ rtcfg = CHOOSE c \in Configs : c.ctor = "makeCollectionAtom"
    /\ rtkeys = <<>>
    /\ rtvalue = NoValue
    /\ rtn = 0
    /\ rtins = 0
    /\ rtdel = 0

\* The two makeQuery cells of TwinSpec.
Twins == {1, 2}

TwinIdle ==
    /\ wsrc = "loading"
    /\ wkeys = <<>>
    /\ wopts = [x \in Twins |-> [startSync |-> "unset", gcTime |-> "unset", suspendOnWaiting |-> "unset"]]
    /\ wphase = [x \in Twins |-> "unmounted"]
    /\ wstat = [x \in Twins |-> "none"]
    /\ wcfg = [x \in Twins |-> NoConfig]
    /\ wops = [x \in Twins |-> <<>>]
    /\ wvals = [x \in Twins |-> <<>>]

TransIdle ==
    /\ tIn = [cfg |-> CHOOSE c \in Configs : c.ctor = "makeCollectionAtom",
              path |-> "initial", status |-> "idle", keys |-> <<>>]
    /\ tOut = NoValue
    /\ uOut = NoValue
    /\ tReads = <<>>

\* The configurations Spec runs: every constructor and projection mode with
\* the default options, and one makeQuery cell whose sync is not started.
SpecConfigs ==
    {c \in Configs : c.startSync = "unset"}
    \cup {[ctor |-> "makeQuery", singleResult |-> FALSE, startSync |-> "false"]}

Init ==
    /\ cfg \in SpecConfigs
    /\ status = IF cfg.ctor = "makeQuery" THEN "none" ELSE "idle"
    /\ keys = <<>>
    /\ phase = "unmounted"
    /\ pc = 0
    /\ sampled = "none"
    /\ retval = NoValue
    /\ value = NoValue
    /\ subs = 0
    /\ unsubCalls = 0
    /\ finalizers = 0
    /\ listeners = 0
    /\ delivered = NoValue
    /\ lateCalls = FALSE
    /\ evalStart = "none"
    /\ remounted = FALSE
    /\ TransIdle
    /\ CondIdle
    /\ UnsafeIdle
    /\ OwnIdle
    /\ PairIdle
    /\ DispatchIdle
    /\ RoundIdle
    /\ TwinIdle

Next ==
    \/ BeginEval
    \/ EvalStartSync
    \/ EvalCreate
    \/ EvalSubscribe
    \/ EvalAddFinalizer
    \/ EvalSample
    \/ Teardown
    \/ AddListener
    \/ RemoveListener
    \/ CollStartSync
    \/ \E k \in Keys : CollInsert(k)
    \/ \E k \in Keys : CollDelete(k)
    \/ CollMarkReady
    \/ CollFail
    \/ CollCleanup

Spec == Init /\ [][Next]_vars

\* -------------------------------------- TranslateSpec: the translation alone
TranslateInputs ==
    [cfg : Configs, path : {"initial", "pushed"}, status : Statuses, keys : KeySeqs]

\* The value a cell produces on the given path for the given status and keys.
Translate(in) ==
    IF in.path = "initial" THEN InitialValue(in.cfg, in.status, in.keys)
    ELSE PushedValue(in.cfg, in.status, in.keys)

TranslateInit ==
    /\ BridgeIdle
    /\ CondIdle
    /\ UnsafeIdle
    /\ OwnIdle
    /\ PairIdle
    /\ DispatchIdle
    /\ RoundIdle
    /\ TwinIdle
    /\ tIn \in TranslateInputs
    /\ tOut = NoValue
    /\ uOut = NoValue
    /\ tReads = <<>>

ApplyTranslate ==
    /\ tOut = NoValue
    /\ tOut' = Translate(tIn)
    /\ tReads' = CollectionReads(tIn.cfg, tIn.path, tIn.status)
    /\ UNCHANGED <<tIn, uOut, offTrans>>

\* The read function of makeQueryUnsafe on the value of its makeQuery cell.
ApplyUnsafe ==
    /\ tIn.cfg.ctor = "makeQuery"
    /\ tOut # NoValue
    /\ uOut = NoValue
    /\ uOut' = makeQueryUnsafe(tOut)
    /\ UNCHANGED <<tIn, tOut, tReads, offTrans>>

TranslateNext ==
    \/ ApplyTranslate
    \/ ApplyUnsafe

TranslateSpec == TranslateInit /\ [][TranslateNext]_vars

\* ----------------------------- CondSpec: makeQueryConditional and makeQuery
\* One query descriptor, a makeQuery cell Q and a makeQueryConditional cell K
\* built from it with the default options, and the result of the query, whose
\* status and content every live query collection built from the descriptor
\* reports.  Both cells are mounted in the same turn, so they see the same
\* changes.  A read function runs without interruption: while K is being
\* evaluated nothing else moves.

\* config.singleResult of the collection a descriptor builds.
SingleResultOf(d) == \E i \in 1..Len(d.chain) : d.chain[i] = "findOne"

\* The callbacks a descriptor passes to builder methods.
CallbacksOf(d) == Cardinality({i \in 1..Len(d.chain) : d.chain[i] = "where"})

\* The proxy's get trap handing out the proxy itself instead of a function.
ProxyGetReturnsProxy(name) == "proxy"

\* The proxy's get trap: whatever the property, a function.
ProxyGet(name) == "function"

\* Calling what the expression holds.  The trap's function ignores its
\* arguments and returns the proxy; the proxy itself is not callable.
ProxyCall(obj) == IF obj = "function" THEN "proxy" ELSE "TypeError"

\* The test on what queryFn returned that misses undefined.
QueryIsDisabledNullOnly(q) == q = "null"

\* query === null || query === undefined
QueryIsDisabled(q) == q \in {"null", "undefined"}

\* get(inner) that does not make the reader depend on the inner cell.
GetTracksNothing(old, new) == FALSE

\* get(inner) makes the reader depend on the inner cell: a pushed value that
\* differs from the inner cell's value has the reader evaluated again.
GetTracks(old, new) == old # new

\* Both cells are at rest, and both mounted or both unmounted.
Settled ==
    /\ kphase \in {"unmounted", "mounted"}
    /\ descr.ret = "built" => ((qphase = "mounted") <=> (kphase = "mounted"))

\* registry.subscribe on the makeQuery cell: its read function runs.
QMount ==
    /\ descr.ret = "built"
    /\ qphase = "unmounted" /\ kphase = "unmounted"
    /\ qphase' = "mounted"
    /\ qvalue' = makeQueryInitial(SingleResultOf(descr), rstatus, CollectionEntries(rkeys))
    /\ UNCHANGED <<descr, rstatus, rkeys, kphase, kpos, kobj, queryReturnsNull, query, kvalue,
                   ksubs, kfinalizers, kcreated, ksync, reevaluated, kthrew, cbRun, probeRuns,
                   realRuns, offCond>>

\* The read function of makeQueryConditional starts: the flag, the proxy, and
\* the call queryFn(proxyBuilder).
KBegin ==
    /\ \/ kphase = "unmounted" /\ (descr.ret = "built" => qphase = "mounted")
       \/ kphase = "invalid"
    /\ reevaluated' = (kphase = "invalid")
    /\ kphase' = "probing"
    /\ queryReturnsNull' = FALSE
    /\ kobj' = "proxy"
    /\ kpos' = 0
    /\ query' = "none"
    /\ probeRuns' = 1
    /\ realRuns' = 0
    /\ cbRun' = 0
    /\ kcreated' = FALSE
    /\ ksync' = FALSE
    /\ UNCHANGED <<descr, rstatus, rkeys, qphase, qvalue, kvalue, ksubs, kfinalizers, kthrew,
                   offCond>>

\* The descriptor reads a builder method off what its expression holds.
ProbeAccess ==
    /\ kphase = "probing"
    /\ kpos < 2 * Len(descr.chain) /\ kpos % 2 = 0
    /\ queryReturnsNull' = FALSE
    /\ kobj' = ProxyGet(descr.chain[(kpos \div 2) + 1])
    /\ kpos' = kpos + 1
    /\ UNCHANGED <<descr, rstatus, rkeys, qphase, qvalue, kphase, query, kvalue, ksubs,
                   kfinalizers, kcreated, ksync, reevaluated, kthrew, cbRun, probeRuns,
                   realRuns, offCond>>

\* The descriptor calls the method it read, passing its arguments (for where,
\* a callback).  A call of something that is not callable throws and ends the
\* evaluation.
ProbeCall ==
    /\ kphase = "probing"
    /\ kpos % 2 = 1
    /\ IF ProxyCall(kobj) = "TypeError"
       THEN /\ kthrew' = TRUE
            /\ kphase' = "threw"
            /\ UNCHANGED <<kobj, kpos>>
       ELSE /\ kobj' = ProxyCall(kobj)
            /\ kpos' = kpos + 1
            /\ UNCHANGED <<kthrew, kphase>>
    /\ UNCHANGED <<descr, rstatus, rkeys, qphase, qvalue, queryReturnsNull, query, kvalue,
                   ksubs, kfinalizers, kcreated, ksync, reevaluated, cbRun, probeRuns,
                   realRuns, offCond>>

\* A return of queryFn(proxyBuilder) that lets the trap's verdict stand: the
\* flag is set for null or undefined only when no builder method was read.
ProbeReturnUnlessTouched ==
    /\ kphase = "probing"
    /\ kpos = 2 * Len(descr.chain)
    /\ LET q == IF descr.ret = "built" THEN kobj ELSE descr.ret
       IN  /\ query' = q
           /\ queryReturnsNull' = IF QueryIsDisabled(q) /\ kpos = 0
                                  THEN TRUE ELSE queryReturnsNull
    /\ kphase' = "decided"
    /\ UNCHANGED <<descr, rstatus, rkeys, qphase, qvalue, kpos, kobj, kvalue, ksubs,
                   kfinalizers, kcreated, ksync, reevaluated, kthrew, cbRun, probeRuns,
                   realRuns, offCond>>

\* queryFn(proxyBuilder) returns: null, undefined, or what its chain built.
\* A null or undefined result sets the flag.
ProbeReturn ==
    /\ kphase = "probing"
    /\ kpos = 2 * Len(descr.chain)
    /\ LET q == IF descr.ret = "built" THEN kobj ELSE descr.ret
       IN  /\ query' = q
           /\ queryReturnsNull' = IF QueryIsDisabled(q) THEN TRUE ELSE queryReturnsNull
    /\ kphase' = "decided"
    /\ UNCHANGED <<descr, rstatus, rkeys, qphase, qvalue, kpos, kobj, kvalue, ksubs,
                   kfinalizers, kcreated, ksync, reevaluated, kthrew, cbRun, probeRuns,
                   realRuns, offCond>>

\* An evaluation that hands the descriptor to makeQuery before it looks at the
\* flag, and then returns undefined.
KReturnAbsentAfterQuery ==
    /\ kphase = "decided"
    /\ queryReturnsNull
    /\ realRuns' = realRuns + 1
    /\ kvalue' = Absent
    /\ kphase' = "mounted"
    /\ UNCHANGED <<descr, rstatus, rkeys, qphase, qvalue, kpos, kobj, queryReturnsNull, query,
                   ksubs, kfinalizers, kcreated, ksync, reevaluated, kthrew, cbRun, probeRuns,
                   offCond>>

\* if (queryReturnsNull) return undefined
KReturnAbsent ==
    /\ kphase = "decided"
    /\ queryReturnsNull
    /\ kvalue' = Absent
    /\ kphase' = "mounted"
    /\ UNCHANGED <<descr, rstatus, rkeys, qphase, qvalue, kpos, kobj, queryReturnsNull, query,
                   ksubs, kfinalizers, kcreated, ksync, reevaluated, kthrew, cbRun, probeRuns,
                   realRuns, offCond>>

\* return get(makeQuery(queryFn, options)): a new makeQuery cell is made and
\* read.  Its read function creates a live query collection, which runs the
\* descriptor on a real builder and starts its sync, subscribes to it,
\* registers the cleanup and returns the translation of its status.  The cell
\* made by the previous evaluation is no longer read and is torn down.
KEvalInner ==
    /\ kphase = "decided"
    /\ ~queryReturnsNull
    /\ kcreated' = TRUE
    /\ ksync' = CreateStartSync("unset")
    /\ realRuns' = realRuns + 1
    /\ cbRun' = cbRun + CallbacksOf(descr)
    /\ ksubs' = SubscribeChanges(UnsubscribeLive(ksubs, 0))
    /\ kfinalizers' = AddFinalizer(0)
    /\ kvalue' = makeQueryInitial(SingleResultOf(descr), rstatus, CollectionEntries(rkeys))
    /\ kphase' = "mounted"
    /\ UNCHANGED <<descr, rstatus, rkeys, qphase, qvalue, kpos, kobj, queryReturnsNull, query,
                   reevaluated, kthrew, probeRuns, offCond>>

\* Both cells lose their last subscriber in the same turn and their nodes are
\* removed; with the conditional cell goes the inner cell it read, whose
\* cleanup unsubscribes.
CondTeardown ==
    /\ kphase = "mounted"
    /\ kphase' = "unmounted"
    /\ kvalue' = NoValue
    /\ ksubs' = UnsubscribeLive(ksubs, 0)
    /\ kfinalizers' = 0
    /\ reevaluated' = FALSE
    /\ qphase' = "unmounted"
    /\ qvalue' = NoValue
    /\ UNCHANGED <<descr, rstatus, rkeys, kpos, kobj, queryReturnsNull, query, kcreated, ksync,
                   kthrew, cbRun, probeRuns, realRuns, offCond>>

\* The live query collections call their change callbacks.  The makeQuery
\* cell stores the pushed value.  The inner cell of the conditional cell
\* stores it too, and the conditional cell, which read it, is evaluated again
\* when that changed the inner cell's value.
RNotify(st, ks) ==
    LET v == makeQueryPushed(SingleResultOf(descr), st, CollectionEntries(ks))
    IN  /\ qvalue' = IF qphase = "mounted" THEN v ELSE qvalue
        /\ kphase' = IF kphase = "mounted" /\ ksubs > 0 /\ GetTracks(kvalue, v)
                     THEN "invalid" ELSE kphase

\* The query's result gains a row.
RInsert(k) ==
    /\ Settled
    /\ rstatus \in {"loading", "ready"}
    /\ k \notin {rkeys[i] : i \in 1..Len(rkeys)}
    /\ rkeys' = Append(rkeys, k)
    /\ RNotify(rstatus, Append(rkeys, k))
    /\ UNCHANGED <<descr, rstatus, qphase, kpos, kobj, queryReturnsNull, query, kvalue, ksubs,
                   kfinalizers, kcreated, ksync, reevaluated, kthrew, cbRun, probeRuns,
                   realRuns, offCond>>

\* The query's result loses a row.
RDelete(k) ==
    /\ Settled
    /\ rstatus \in {"loading", "ready"}
    /\ k \in {rkeys[i] : i \in 1..Len(rkeys)}
    /\ rkeys' = SelectSeq(rkeys, LAMBDA x : x # k)
    /\ RNotify(rstatus, SelectSeq(rkeys, LAMBDA x : x # k))
    /\ UNCHANGED <<descr, rstatus, qphase, kpos, kobj, queryReturnsNull, query, kvalue, ksubs,
                   kfinalizers, kcreated, ksync, reevaluated, kthrew, cbRun, probeRuns,
                   realRuns, offCond>>

\* The source is marked ready: so is the query's result.
RMarkReady ==
    /\ Settled
    /\ rstatus = "loading"
    /\ rstatus' = "ready"
    /\ RNotify("ready", rkeys)
    /\ UNCHANGED <<descr, rkeys, qphase, kpos, kobj, queryReturnsNull, query, kvalue, ksubs,
                   kfinalizers, kcreated, ksync, reevaluated, kthrew, cbRun, probeRuns,
                   realRuns, offCond>>

\* The sync fails, with or without a call of the change callbacks.
RFail ==
    /\ Settled
    /\ rstatus \in {"loading", "ready"}
    /\ rstatus' = "error"
    /\ \/ RNotify("error", rkeys)
       \/ UNCHANGED <<qvalue, kphase>>
    /\ UNCHANGED <<descr, rkeys, qphase, kpos, kobj, queryReturnsNull, query, kvalue, ksubs,
                   kfinalizers, kcreated, ksync, reevaluated, kthrew, cbRun, probeRuns,
                   realRuns, offCond>>

CondInit ==
    /\ BridgeIdle
    /\ TransIdle
    /\ UnsafeIdle
    /\ OwnIdle
    /\ PairIdle
    /\ DispatchIdle
    /\ RoundIdle
    /\ TwinIdle
    /\ descr \in Descriptors
    /\ rstatus \in {"loading", "ready"}
    /\ rkeys = <<>>
    /\ qphase = "unmounted"
    /\ qvalue = NoValue
    /\ kphase = "unmounted"
    /\ kpos = 0
    /\ kobj = "none"
    /\ queryReturnsNull = FALSE
    /\ query = "none"
    /\ kvalue = NoValue
    /\ ksubs = 0
    /\ kfinalizers = 0
    /\ kcreated = FALSE
    /\ ksync = FALSE
    /\ reevaluated = FALSE
    /\ kthrew = FALSE
    /\ cbRun = 0
    /\ probeRuns = 0
    /\ realRuns = 0

CondNext ==
    \/ QMount
    \/ KBegin
    \/ ProbeAccess
    \/ ProbeCall
    \/ ProbeReturn
    \/ KReturnAbsent
    \/ KEvalInner
    \/ CondTeardown
    \/ \E k \in Keys : RInsert(k)
    \/ \E k \in Keys : RDelete(k)
    \/ RMarkReady
    \/ RFail

CondSpec == CondInit /\ [][CondNext]_vars

\* ------------------------------------------ UnsafeSpec: makeQueryUnsafe
\* One source collection and a makeQueryUnsafe cell over a query that selects
\* all its rows.  Each evaluation of the cell makes a new makeQuery cell, with
\* a new live query collection, and reads it; a push into that cell has the
\* unsafe cell evaluated again.  A read function runs without interruption.

\* A new live query collection whose sync is never started.
FreshStatusesNotStarted(src, started) == {"idle"}

\* The status a new live query collection shows to the read function that
\* created it: idle when its sync is not started; otherwise ready over a ready
\* source and loading over a loading one; over a failed source, loading or
\* error.
FreshStatuses(src, started) ==
    IF ~started THEN {"idle"}
    ELSE IF src = "error" THEN {"loading", "error"}
    ELSE {src}

\* No read function of the unsafe cell is running or due.
URest == uphase \in {"unmounted", "mounted"}

\* registry.subscribe on the unsafe cell: its read function starts.
UMount ==
    /\ uphase = "unmounted"
    /\ uphase' = "evaluating"
    /\ UNCHANGED <<sstatus, skeys, usingle, uinner, uvalue, ustatus, usubs, ucreated, offUnsafe>>

\* The runtime evaluates the invalidated cell again.
UReevaluate ==
    /\ uphase = "invalid"
    /\ uphase' = "evaluating"
    /\ UNCHANGED <<sstatus, skeys, usingle, uinner, uvalue, ustatus, usubs, ucreated, offUnsafe>>

\* An evaluation after which the makeQuery cell of the previous evaluation
\* stays subscribed.
UEvalInnerKeepsPrevious ==
    /\ uphase = "evaluating"
    /\ \E st \in FreshStatuses(sstatus, CreateStartSync("unset")) :
        /\ ustatus' = st
        /\ uinner' = makeQueryInitial(usingle, st, CollectionEntries(skeys))
        /\ uvalue' = makeQueryUnsafe(makeQueryInitial(usingle, st, CollectionEntries(skeys)))
    /\ usubs' = SubscribeChanges(usubs)
    /\ ucreated' = Min(ucreated + 1, 2)
    /\ uphase' = "mounted"
    /\ UNCHANGED <<sstatus, skeys, usingle, offUnsafe>>

\* const result = get(makeQuery(queryFn, options)); return
\* Result.getOrElse(result, constUndefined).  The makeQuery cell made by the
\* previous evaluation is no longer read and is torn down.
UEvalInner ==
    /\ uphase = "evaluating"
    /\ \E st \in FreshStatuses(sstatus, CreateStartSync("unset")) :
        /\ ustatus' = st
        /\ uinner' = makeQueryInitial(usingle, st, CollectionEntries(skeys))
        /\ uvalue' = makeQueryUnsafe(makeQueryInitial(usingle, st, CollectionEntries(skeys)))
    /\ usubs' = SubscribeChanges(UnsubscribeLive(usubs, 0))
    /\ ucreated' = Min(ucreated + 1, 2)
    /\ uphase' = "mounted"
    /\ UNCHANGED <<sstatus, skeys, usingle, offUnsafe>>

\* The unsafe cell loses its last subscriber: its node is removed, and with
\* it the makeQuery cell it read.
UTeardown ==
    /\ uphase = "mounted"
    /\ uphase' = "unmounted"
    /\ uvalue' = NoValue
    /\ uinner' = NoValue
    /\ ustatus' = "none"
    /\ usubs' = UnsubscribeLive(usubs, 0)
    /\ ucreated' = 0
    /\ UNCHANGED <<sstatus, skeys, usingle, offUnsafe>>

\* The live query collection calls its change callback: the makeQuery cell
\* stores the pushed value, and the unsafe cell, which read it, is invalidated
\* when that changed the value.
UPush(st, ks) ==
    LET v == makeQueryPushed(usingle, st, CollectionEntries(ks))
        fires == uphase = "mounted" /\ usubs > 0
    IN  /\ uinner' = IF fires THEN v ELSE uinner
        /\ uphase' = IF fires /\ GetTracks(uinner, v) THEN "invalid" ELSE uphase

\* The source gains a row; a live query collection that is syncing follows.
SInsert(k) ==
    /\ URest
    /\ sstatus \in {"loading", "ready"}
    /\ k \notin {skeys[i] : i \in 1..Len(skeys)}
    /\ skeys' = Append(skeys, k)
    /\ IF ustatus \in {"loading", "ready"}
       THEN UPush(ustatus, Append(skeys, k))
       ELSE UNCHANGED <<uinner, uphase>>
    /\ UNCHANGED <<sstatus, usingle, uvalue, ustatus, usubs, ucreated, offUnsafe>>

\* The source loses a row.
SDelete(k) ==
    /\ URest
    /\ sstatus \in {"loading", "ready"}
    /\ k \in {skeys[i] : i \in 1..Len(skeys)}
    /\ skeys' = SelectSeq(skeys, LAMBDA x : x # k)
    /\ IF ustatus \in {"loading", "ready"}
       THEN UPush(ustatus, SelectSeq(skeys, LAMBDA x : x # k))
       ELSE UNCHANGED <<uinner, uphase>>
    /\ UNCHANGED <<sstatus, usingle, uvalue, ustatus, usubs, ucreated, offUnsafe>>

\* The source is marked ready; a loading live query collection becomes ready
\* and tells its subscribers.
SMarkReady ==
    /\ URest
    /\ sstatus = "loading"
    /\ sstatus' = "ready"
    /\ IF ustatus = "loading"
       THEN ustatus' = "ready" /\ UPush("ready", skeys)
       ELSE UNCHANGED <<ustatus, uinner, uphase>>
    /\ UNCHANGED <<skeys, usingle, uvalue, usubs, ucreated, offUnsafe>>

\* The source's sync fails; a syncing live query collection fails with it,
\* with or without a call of its change callbacks.
SFail ==
    /\ URest
    /\ sstatus \in {"loading", "ready"}
    /\ sstatus' = "error"
    /\ IF ustatus \in {"loading", "ready"}
       THEN /\ ustatus' = "error"
            /\ \/ UPush("error", skeys)
               \/ UNCHANGED <<uinner, uphase>>
       ELSE UNCHANGED <<ustatus, uinner, uphase>>
    /\ UNCHANGED <<skeys, usingle, uvalue, usubs, ucreated, offUnsafe>>

UnsafeInit ==
    /\ BridgeIdle
    /\ TransIdle
    /\ CondIdle
    /\ OwnIdle
    /\ PairIdle
    /\ DispatchIdle
    /\ RoundIdle
    /\ TwinIdle
    /\ sstatus \in {"loading", "ready"}
    /\ skeys = <<>>
    /\ usingle \in BOOLEAN
    /\ uphase = "unmounted"
    /\ uinner = NoValue
    /\ uvalue = NoValue
    /\ ustatus = "none"
    /\ usubs = 0
    /\ ucreated = 0

UnsafeNext ==
    \/ UMount
    \/ UReevaluate
    \/ UEvalInner
    \/ UTeardown
    \/ \E k \in Keys : SInsert(k)
    \/ \E k \in Keys : SDelete(k)
    \/ SMarkReady
    \/ SFail

\* The runtime finishes a read function it has started and evaluates an
\* invalidated cell that has a subscriber.
UnsafeSpec ==
    /\ UnsafeInit
    /\ [][UnsafeNext]_vars
    /\ WF_vars(UReevaluate)
    /\ WF_vars(UEvalInner)

\* -------------------------- OwnSpec: makeQuery cells and their collections
\* One source collection and two makeQuery cells whose queries read it: cell
\* "a" selects every row, cell "b" filters one out.  Each evaluation of a cell
\* creates a live query collection, which follows the source for as long as
\* it is alive.  The read function is one step here; its statement order is
\* the subject of Spec.

\* The rows of the source a cell's query selects.
Select(c, ks) == IF c = "a" THEN ks ELSE SelectSeq(ks, LAMBDA k : k # 1)

\* gcTime: options?.gcTime ?? 0
GcTime(opt) == IF opt = "unset" THEN "zero" ELSE opt

\* LiveQueryConfig with the defaults applied to every falsy option
\* (options?.startSync || true, options?.gcTime || 0).
LiveQueryConfigFalsyDefaults(startSyncOpt, gcTimeOpt) ==
    [startSync |-> IF startSyncOpt \in {"unset", "false"} THEN TRUE ELSE startSyncOpt = "true",
     gcTime |-> IF gcTimeOpt \in {"unset", "zero"} THEN "zero" ELSE gcTimeOpt]

\* The object makeQuery passes to createLiveQueryCollection, without the
\* query: {startSync: options?.startSync ?? true, gcTime: options?.gcTime ?? 0}
LiveQueryConfig(startSyncOpt, gcTimeOpt) ==
    [startSync |-> CreateStartSync(startSyncOpt), gcTime |-> GcTime(gcTimeOpt)]

\* createLiveQueryCollection handing out one cached collection.
NewCollectionCached(n) == 1

\* createLiveQueryCollection(...): a collection that did not exist before,
\* the (n+1)-th when n were created so far.
NewCollection(n) == n + 1

\* A collection that is syncing or synced, and so follows its source.
Alive(i) == cstat[i] \in {"loading", "ready"}

\* The value a mounted cell holds after its collection called the change
\* callback with the source's rows being ks and the statuses being st.
OPushed(st, ks) ==
    [c \in Cells |->
        IF ophase[c] = "mounted" /\ c \in csubs[ocoll[c]] /\ st[ocoll[c]] \in {"loading", "ready"}
        THEN makeQueryPushed(FALSE, st[ocoll[c]], CollectionEntries(Select(c, ks)))
        ELSE ovalue[c]]

\* registry.subscribe on a makeQuery cell: its read function creates a
\* collection, subscribes to it, registers the cleanup and returns the
\* translation of its status.
OMount(c) ==
    /\ ophase[c] = "unmounted"
    /\ ocreated < MaxColls
    /\ \E st \in FreshStatuses(osrc, LiveQueryConfig(ostart, ogc).startSync) :
        LET id == NewCollection(ocreated)
        IN  /\ ocoll' = [ocoll EXCEPT ![c] = id]
            /\ cstat' = [cstat EXCEPT ![id] = st]
            /\ ccfg' = [ccfg EXCEPT ![id] = LiveQueryConfig(ostart, ogc)]
            /\ csubs' = [csubs EXCEPT ![id] = @ \cup {c}]
            /\ ovalue' = [ovalue EXCEPT ![c] =
                            makeQueryInitial(FALSE, st, CollectionEntries(Select(c, okeys)))]
    /\ ocreated' = ocreated + 1
    /\ ophase' = [ophase EXCEPT ![c] = "mounted"]
    /\ UNCHANGED <<osrc, okeys, ogc, ostart, offOwn>>

\* The cell loses its last subscriber: its cleanup action runs
\* subscription.unsubscribe(), and nothing else.
OTeardown(c) ==
    /\ ophase[c] = "mounted"
    /\ ophase' = [ophase EXCEPT ![c] = "unmounted"]
    /\ csubs' = [csubs EXCEPT ![ocoll[c]] = @ \ {c}]
    /\ ovalue' = [ovalue EXCEPT ![c] = NoValue]
    /\ UNCHANGED <<osrc, okeys, ogc, ocoll, ocreated, cstat, ostart, ccfg, offOwn>>

\* The source gains a row; every live collection follows and notifies.
OInsert(k) ==
    /\ osrc \in {"loading", "ready"}
    /\ k \notin {okeys[i] : i \in 1..Len(okeys)}
    /\ okeys' = Append(okeys, k)
    /\ ovalue' = OPushed(cstat, Append(okeys, k))
    /\ UNCHANGED <<osrc, ogc, ophase, ocoll, ocreated, cstat, csubs, ostart, ccfg, offOwn>>

\* The source loses a row.
ODelete(k) ==
    /\ osrc \in {"loading", "ready"}
    /\ k \in {okeys[i] : i \in 1..Len(okeys)}
    /\ okeys' = SelectSeq(okeys, LAMBDA x : x # k)
    /\ ovalue' = OPushed(cstat, SelectSeq(okeys, LAMBDA x : x # k))
    /\ UNCHANGED <<osrc, ogc, ophase, ocoll, ocreated, cstat, csubs, ostart, ccfg, offOwn>>

\* The source is marked ready: every loading live query collection becomes
\* ready and notifies.
OMarkReady ==
    /\ osrc = "loading"
    /\ osrc' = "ready"
    /\ LET st == [i \in CollIds |-> IF cstat[i] = "loading" THEN "ready" ELSE cstat[i]]
       IN  /\ cstat' = st
           /\ ovalue' = OPushed(st, okeys)
    /\ UNCHANGED <<okeys, ogc, ophase, ocoll, ocreated, csubs, ostart, ccfg, offOwn>>

\* The collection's garbage collection timer, armed with a positive gcTime
\* when the last subscription went, fires: the collection is cleaned up.
CollGcTimed(i) ==
    /\ GcTime(ogc) = "positive"
    /\ Alive(i)
    /\ csubs[i] = {}
    /\ cstat' = [cstat EXCEPT ![i] = "cleaned-up"]
    /\ UNCHANGED <<osrc, okeys, ogc, ophase, ocoll, ovalue, ocreated, csubs, ostart, ccfg, offOwn>>

\* With a gcTime of zero the collaborator collects the collection or keeps
\* it, as it decides.
CollGcUntimed(i) ==
    /\ GcTime(ogc) = "zero"
    /\ Alive(i)
    /\ csubs[i] = {}
    /\ cstat' = [cstat EXCEPT ![i] = "cleaned-up"]
    /\ UNCHANGED <<osrc, okeys, ogc, ophase, ocoll, ovalue, ocreated, csubs, ostart, ccfg, offOwn>>

OwnInit ==
    /\ BridgeIdle
    /\ TransIdle
    /\ CondIdle
    /\ UnsafeIdle
    /\ PairIdle
    /\ DispatchIdle
    /\ RoundIdle
    /\ TwinIdle
    /\ osrc \in {"loading", "ready"}
    /\ okeys = <<>>
    /\ ogc \in {"unset", "zero", "positive"}
    /\ ophase = [c \in Cells |-> "unmounted"]
    /\ ocoll = [c \in Cells |-> 0]
    /\ ovalue = [c \in Cells |-> NoValue]
    /\ ocreated = 0
    /\ cstat = [i \in CollIds |-> "none"]
    /\ csubs = [i \in CollIds |-> {}]
    /\ ostart \in {"unset", "true", "false"}
    /\ ccfg = [i \in CollIds |-> NoConfig]

OwnNext ==
    \/ \E c \in Cells : OMount(c)
    \/ \E c \in Cells : OTeardown(c)
    \/ \E k \in Keys : OInsert(k)
    \/ \E k \in Keys : ODelete(k)
    \/ OMarkReady
    \/ \E i \in CollIds : CollGcTimed(i)
    \/ \E i \in CollIds : CollGcUntimed(i)

\* A timer that was armed fires.
OwnSpec ==
    /\ OwnInit
    /\ [][OwnNext]_vars
    /\ \A i \in CollIds : WF_vars(CollGcTimed(i))

\* --------------------- PairSpec: cells over different caller collections
\* Two caller-owned collections, each wrapped by its own makeCollectionAtom
\* cell.  The read function is one step here.

\* Backing with both cells made over the first collection.
BackingFirst(c) == 1

\* The collection a cell's read function and callback close over: the one
\* given to makeCollectionAtom.
Backing(c) == c

\* A callback that builds on the cell's previous value: a cell that already
\* showed rows keeps them and adds the collection's last row.
PPushedOntoPrevious(j, st, ks) ==
    [c \in Pair |->
        IF pphase[c] = "mounted" /\ Backing(c) = j
        THEN (IF pvalue[c].tag = "Success" /\ st = "ready" /\ Len(ks) > 0
              THEN ResultSuccess("array", Append(pvalue[c].items, ValueOf(ks[Len(ks)])))
              ELSE makeCollectionAtomPushed(st, CollectionEntries(ks)))
        ELSE pvalue[c]]

\* The cells' values after collection j called its change callbacks, its
\* status being st and its keys ks.
PPushed(j, st, ks) ==
    [c \in Pair |->
        IF pphase[c] = "mounted" /\ Backing(c) = j
        THEN makeCollectionAtomPushed(st, CollectionEntries(ks))
        ELSE pvalue[c]]

\* registry.get / registry.mount on cell c: startSyncImmediate, subscribe,
\* register the cleanup, return the translation of the status.
PMount(c) ==
    /\ pphase[c] = "unmounted"
    /\ LET j == Backing(c)
           st == IF pstat[j] = "idle" THEN "loading" ELSE pstat[j]
       IN  /\ pstat' = [pstat EXCEPT ![j] = st]
           /\ pvalue' = [pvalue EXCEPT ![c] =
                            makeCollectionAtomInitial(st, CollectionEntries(pkeys[j]))]
    /\ pphase' = [pphase EXCEPT ![c] = "mounted"]
    /\ UNCHANGED <<pkeys, pdeleted, offPair>>

\* The cell's node is removed: the cleanup unsubscribes.
PTeardown(c) ==
    /\ pphase[c] = "mounted"
    /\ pphase' = [pphase EXCEPT ![c] = "unmounted"]
    /\ pvalue' = [pvalue EXCEPT ![c] = NoValue]
    /\ UNCHANGED <<pstat, pkeys, pdeleted, offPair>>

\* Collection j commits an insert.
PInsert(j, k) ==
    /\ pstat[j] \in {"loading", "ready"}
    /\ k \notin {pkeys[j][i] : i \in 1..Len(pkeys[j])}
    /\ pkeys' = [pkeys EXCEPT ![j] = Append(@, k)]
    /\ pvalue' = PPushed(j, pstat[j], Append(pkeys[j], k))
    /\ UNCHANGED <<pstat, pphase, pdeleted, offPair>>

\* Collection j commits a delete.
PDelete(j, k) ==
    /\ pstat[j] \in {"loading", "ready"}
    /\ k \in {pkeys[j][i] : i \in 1..Len(pkeys[j])}
    /\ pkeys' = [pkeys EXCEPT ![j] = SelectSeq(@, LAMBDA x : x # k)]
    /\ pvalue' = PPushed(j, pstat[j], SelectSeq(pkeys[j], LAMBDA x : x # k))
    /\ pdeleted' = [pdeleted EXCEPT ![j] = TRUE]
    /\ UNCHANGED <<pstat, pphase, offPair>>

\* Collection j is marked ready, after its own delay.
PMarkReady(j) ==
    /\ pstat[j] = "loading"
    /\ pstat' = [pstat EXCEPT ![j] = "ready"]
    /\ pvalue' = PPushed(j, "ready", pkeys[j])
    /\ UNCHANGED <<pkeys, pphase, pdeleted, offPair>>

\* Collection j calls its change callbacks again although neither its status
\* nor its rows changed since the last call.
PRenotify(j) ==
    /\ pvalue' = PPushed(j, pstat[j], pkeys[j])
    /\ UNCHANGED <<pstat, pkeys, pphase, pdeleted, offPair>>

PairInit ==
    /\ BridgeIdle
    /\ TransIdle
    /\ CondIdle
    /\ UnsafeIdle
    /\ OwnIdle
    /\ DispatchIdle
    /\ RoundIdle
    /\ TwinIdle
    /\ pstat = [j \in Pair |-> "idle"]
    /\ pkeys = [j \in Pair |-> <<>>]
    /\ pphase = [c \in Pair |-> "unmounted"]
    /\ pvalue = [c \in Pair |-> NoValue]
    /\ pdeleted = [j \in Pair |-> FALSE]

PairNext ==
    \/ \E c \in Pair : PMount(c)
    \/ \E c \in Pair : PTeardown(c)
    \/ \E j \in Pair, k \in Keys : PInsert(j, k)
    \/ \E j \in Pair, k \in Keys : PDelete(j, k)
    \/ \E j \in Pair : PMarkReady(j)
    \/ \E j \in Pair : PRenotify(j)

PairSpec == PairInit /\ [][PairNext]_vars

\* ------------------ DispatchSpec: the subscribers of one makeCollectionAtom cell
\* One caller-owned collection, one makeCollectionAtom cell, and the
\* subscribers registry.subscribe attached to it.  A value stored in the node
\* (returned by the read function or pushed with get.setSelf) is handed to
\* the listeners one after the other, inside the call that stored it; the
\* position of that loop is dq.  Nothing else runs while a dispatch does.

Range(q) == {q[i] : i \in 1..Len(q)}

\* ListenerOrder calling the listeners last registered first.
ListenerOrderReversed(rs) == [i \in 1..Len(rs) |-> rs[Len(rs) + 1 - i]]

\* ListenerOrder calling only the listener registered first.
ListenerOrderFirstOnly(rs) == IF rs = <<>> THEN <<>> ELSE <<rs[1]>>

\* The listeners a dispatch calls, in calling order: all of them, in the
\* order they registered.
ListenerOrder(rs) == rs

\* CanBeRemoved that lets a node go while it has listeners.
CanBeRemovedAnyTime(rs) == TRUE

\* A node may be removed, and its cleanup actions run, when it has no listener.
CanBeRemoved(rs) == rs = <<>>

\* CallbackPushes that pushes only a value that differs from the current one.
CallbackPushesOnChange(cur, st, ks) ==
    IF makeCollectionAtomPushed(st, CollectionEntries(ks)) = cur THEN <<>>
    ELSE <<makeCollectionAtomPushed(st, CollectionEntries(ks))>>

\* The values the change callback pushes with get.setSelf, in order, when it
\* is called with the collection's status being st and its keys ks: one on
\* each of its four paths.
CallbackPushes(cur, st, ks) == <<makeCollectionAtomPushed(st, CollectionEntries(ks))>>

\* The node stores v and starts handing it to its listeners.
StartDispatch(v) ==
    /\ dvalue' = v
    /\ hist' = Append(hist, v)
    /\ dq' = ListenerOrder(regs)
    /\ called' = <<>>

\* The collection calls the cell's callback, if the cell is subscribed.
DNotify(st, ks) ==
    IF dmounted
    THEN LET ps == CallbackPushes(dvalue, st, ks)
         IN  /\ notes' = Append(notes, [status |-> st, keys |-> ks])
             /\ pushes' = pushes \o ps
             /\ IF ps = <<>> THEN UNCHANGED <<dvalue, hist, dq, called>>
                ELSE StartDispatch(ps[Len(ps)])
    ELSE UNCHANGED <<notes, pushes, dvalue, hist, dq, called>>

\* No dispatch is running and the behaviour may still dispatch a value.
DQuiet == dq = <<>> /\ Len(hist) < MaxDispatched /\ Len(notes) < MaxDispatched

\* The collection changes while the cell is subscribed to it.
DChange == DQuiet /\ dmounted

\* registry.subscribe(atom, f): f becomes the last listener of the node.
DSubscribe(s) ==
    /\ dq = <<>>
    /\ s \notin Range(regs)
    /\ regs' = Append(regs, s)
    /\ joined' = [joined EXCEPT ![s] = Len(hist)]
    /\ seen' = [seen EXCEPT ![s] = <<>>]
    /\ called' = <<>>
    /\ UNCHANGED <<dstatus, dkeys, dmounted, dvalue, isolates, hist, notes, pushes, dq,
                   threw, offDispatch>>

\* The function registry.subscribe returned: f is no longer a listener.
DUnsubscribe(s) ==
    /\ dq = <<>>
    /\ s \in Range(regs)
    /\ regs' = SelectSeq(regs, LAMBDA x : x # s)
    /\ joined' = [joined EXCEPT ![s] = 0]
    /\ seen' = [seen EXCEPT ![s] = <<>>]
    /\ called' = <<>>
    /\ UNCHANGED <<dstatus, dkeys, dmounted, dvalue, isolates, hist, notes, pushes, dq,
                   threw, offDispatch>>

\* registry.get(atom) on a node that has no value: the read function runs
\* (start-sync, subscribe, cleanup registration, sample) and its return
\* value is stored.
DGet ==
    /\ DQuiet
    /\ ~dmounted
    /\ dmounted' = TRUE
    /\ StartDispatch(makeCollectionAtomInitial(dstatus, CollectionEntries(dkeys)))
    /\ UNCHANGED <<dstatus, dkeys, isolates, regs, joined, seen, notes, pushes, threw,
                   offDispatch>>

\* The node is removed; its cleanup action unsubscribes from the collection.
DTeardown ==
    /\ dq = <<>>
    /\ dmounted
    /\ CanBeRemoved(regs)
    /\ dmounted' = FALSE
    /\ dvalue' = NoValue
    /\ UNCHANGED <<dstatus, dkeys, isolates, regs, joined, seen, hist, notes, pushes, dq,
                   called, threw, offDispatch>>

\* The running dispatch calls its next listener with the node's value.  The
\* listener returns or throws; what a throw does to the rest of the dispatch
\* is the runtime's.
DeliverNext(outcome) ==
    /\ dq # <<>>
    /\ outcome = "throws" => ~threw
    /\ seen' = [seen EXCEPT ![dq[1]] = Append(@, dvalue)]
    /\ called' = Append(called, dq[1])
    /\ threw' = (threw \/ outcome = "throws")
    /\ dq' = IF outcome = "throws" /\ ~isolates THEN <<>> ELSE Tail(dq)
    /\ UNCHANGED <<dstatus, dkeys, dmounted, dvalue, isolates, regs, joined, hist, notes,
                   pushes, offDispatch>>

\* begin(); write({type: "insert", value}); commit()
DInsert(k) ==
    /\ DChange
    /\ k \notin Range(dkeys)
    /\ dkeys' = Append(dkeys, k)
    /\ DNotify(dstatus, Append(dkeys, k))
    /\ UNCHANGED <<dstatus, dmounted, isolates, regs, joined, seen, threw, offDispatch>>

\* begin(); write({type: "delete", value}); commit()
DDelete(k) ==
    /\ DChange
    /\ k \in Range(dkeys)
    /\ dkeys' = SelectSeq(dkeys, LAMBDA x : x # k)
    /\ DNotify(dstatus, SelectSeq(dkeys, LAMBDA x : x # k))
    /\ UNCHANGED <<dstatus, dmounted, isolates, regs, joined, seen, threw, offDispatch>>

\* markReady()
DMarkReady ==
    /\ DChange
    /\ dstatus = "loading"
    /\ dstatus' = "ready"
    /\ DNotify("ready", dkeys)
    /\ UNCHANGED <<dkeys, dmounted, isolates, regs, joined, seen, threw, offDispatch>>

DispatchInit ==
    /\ BridgeIdle
    /\ TransIdle
    /\ CondIdle
    /\ UnsafeIdle
    /\ OwnIdle
    /\ PairIdle
    /\ RoundIdle
    /\ TwinIdle
    /\ dstatus \in {"loading", "ready"}
    /\ dkeys = <<>>
    /\ dmounted = FALSE
    /\ dvalue = NoValue
    /\ isolates \in BOOLEAN
    /\ regs = <<>>
    /\ joined = [s \in SubIds |-> 0]
    /\ seen = [s \in SubIds |-> <<>>]
    /\ hist = <<>>
    /\ notes = <<>>
    /\ pushes = <<>>
    /\ dq = <<>>
    /\ called = <<>>
    /\ threw = FALSE

DispatchNext ==
    \/ \E s \in SubIds : DSubscribe(s)
    \/ \E s \in SubIds : DUnsubscribe(s)
    \/ DGet
    \/ DTeardown
    \/ \E outcome \in {"returns", "throws"} : DeliverNext(outcome)
    \/ \E k \in Keys : DInsert(k)
    \/ \E k \in Keys : DDelete(k)
    \/ DMarkReady

DispatchSpec == DispatchInit /\ [][DispatchNext]_vars

\* ------------------------- RoundSpec: inserts followed by matching deletes
\* A cell in array projection mode, mounted over a ready, empty collection.
\* The collection commits rtn insert transactions of different entities and
\* then rtn delete transactions of the same entities, in any order; each
\* commit calls the cell's callback.

\* RoundCallback that adds the rows it has not shown yet and drops none.
RoundCallbackKeepsRows(c, cur, ks) ==
    LET shown == {cur.items[i] : i \in 1..Len(cur.items)}
        fresh == SelectSeq(ks, LAMBDA k : ValueOf(k) \notin shown)
    IN  ResultSuccess("array", cur.items \o [i \in 1..Len(fresh) |-> ValueOf(fresh[i])])

\* What the callback pushes when the ready collection holds ks: the
\* projection of collection.entries(), whatever the cell showed before.
RoundCallback(c, cur, ks) == PushedValue(c, "ready", ks)

RoundInsert(k) ==
    /\ rtdel = 0
    /\ rtins < rtn
    /\ k \notin {rtkeys[i] : i \in 1..Len(rtkeys)}
    /\ rtkeys' = Append(rtkeys, k)
    /\ rtvalue' = RoundCallback(rtcfg, rtvalue, Append(rtkeys, k))
    /\ rtins' = rtins + 1
    /\ UNCHANGED <<rtcfg, rtn, rtdel, offRound>>

RoundDelete(k) ==
    /\ rtins = rtn
    /\ k \in {rtkeys[i] : i \in 1..Len(rtkeys)}
    /\ rtkeys' = SelectSeq(rtkeys, LAMBDA x : x # k)
    /\ rtvalue' = RoundCallback(rtcfg, rtvalue, SelectSeq(rtkeys, LAMBDA x : x # k))
    /\ rtdel' = rtdel + 1
    /\ UNCHANGED <<rtcfg, rtn, rtins, offRound>>

RoundInit ==
    /\ BridgeIdle
    /\ TransIdle
    /\ CondIdle
    /\ UnsafeIdle
    /\ OwnIdle
    /\ PairIdle
    /\ DispatchIdle
    /\ TwinIdle
    /\ rtcfg \in {c \in Configs : /\ c.ctor \in {"makeCollectionAtom", "makeQuery"}
                                 /\ ~c.singleResult
                                 /\ c.startSync \in {"unset", "true"}}
    /\ rtkeys = <<>>
    /\ rtvalue = InitialValue(rtcfg, "ready", <<>>)
    /\ rtn \in 0..MaxEntities
    /\ rtins = 0
    /\ rtdel = 0

RoundNext ==
    \/ \E k \in Keys : RoundInsert(k)
    \/ \E k \in Keys : RoundDelete(k)

RoundSpec == RoundInit /\ [][RoundNext]_vars

\* ------------- TwinSpec: makeQuery cells that differ in suspendOnWaiting
\* One source collection and two makeQuery cells built from the same query
\* (every row of the source) and from options objects that agree in startSync
\* and gcTime and differ in suspendOnWaiting.  Cell 1 is mounted and torn
\* down first and cell 2 follows before the source changes again, so both see
\* the same sequence of changes.  The read function is one step here.

\* A makeQuery that holds back the sync when asked to suspend on waiting.
MakeQueryConfigSuspendDefersSync(options) ==
    LiveQueryConfig(IF options.suspendOnWaiting = "true" THEN "false" ELSE options.startSync,
                    options.gcTime)

\* What makeQuery makes of its options object: it reads options?.startSync
\* and options?.gcTime and no other property.
MakeQueryConfig(options) == LiveQueryConfig(options.startSync, options.gcTime)

\* The cell's configuration in the terms of the translation operators.
TwinCfg(x) == [ctor |-> "makeQuery", singleResult |-> FALSE, startSync |-> wopts[x].startSync]

\* Both cells are mounted or both are unmounted.
TwinSettled == wphase[1] = wphase[2]

\* Both cells are mounted: the source changes under the eyes of both.
TwinMounted == \A x \in Twins : wphase[x] = "mounted"

\* A live query collection that is syncing or synced follows the source.
TwinFollows(x) == wphase[x] = "mounted" /\ wstat[x] \in {"loading", "ready"}

\* The logs after the collections called their change callbacks, their
\* statuses being st and the source's rows ks: each callback reads what
\* CollectionReads says and pushes the translation.
TwinNotify(st, ks) ==
    /\ wops' = [x \in Twins |->
                    IF TwinFollows(x)
                    THEN wops[x] \o CollectionReads(TwinCfg(x), "pushed", st[x])
                    ELSE wops[x]]
    /\ wvals' = [x \in Twins |->
                    IF TwinFollows(x)
                    THEN Append(wvals[x], makeQueryPushed(FALSE, st[x], CollectionEntries(ks)))
                    ELSE wvals[x]]

\* No cell that would log a value has its log full.
TwinRoom == \A x \in Twins : TwinFollows(x) => Len(wvals[x]) < MaxValues

\* registry.mount on cell x: its read function creates the collection,
\* subscribes, registers the cleanup and returns the translation of the
\* status.
WMount(x) ==
    /\ wphase[x] = "unmounted"
    /\ IF x = 1 THEN wphase[2] = "unmounted" /\ Len(wvals[1]) < MaxValues
       ELSE wphase[1] = "mounted"
    /\ \E st \in FreshStatuses(wsrc, MakeQueryConfig(wopts[x]).startSync) :
        /\ wstat' = [wstat EXCEPT ![x] = st]
        /\ wops' = [wops EXCEPT ![x] =
                        @ \o <<"createLiveQueryCollection", "subscribeChanges", "addFinalizer">>
                          \o CollectionReads(TwinCfg(x), "initial", st)]
        /\ wvals' = [wvals EXCEPT ![x] =
                        Append(@, makeQueryInitial(FALSE, st, CollectionEntries(wkeys)))]
    /\ wcfg' = [wcfg EXCEPT ![x] = MakeQueryConfig(wopts[x])]
    /\ wphase' = [wphase EXCEPT ![x] = "mounted"]
    /\ UNCHANGED <<wsrc, wkeys, wopts, offTwin>>

\* Cell x loses its last subscriber: its cleanup unsubscribes.
WTeardown(x) ==
    /\ wphase[x] = "mounted"
    /\ IF x = 1 THEN wphase[2] = "mounted" ELSE wphase[1] = "unmounted"
    /\ wphase' = [wphase EXCEPT ![x] = "unmounted"]
    /\ wops' = [wops EXCEPT ![x] = Append(@, "unsubscribe")]
    /\ UNCHANGED <<wsrc, wkeys, wopts, wstat, wcfg, wvals, offTwin>>

\* The source gains a row.
WInsert(k) ==
    /\ TwinMounted /\ TwinRoom
    /\ wsrc \in {"loading", "ready"}
    /\ k \notin {wkeys[i] : i \in 1..Len(wkeys)}
    /\ wkeys' = Append(wkeys, k)
    /\ TwinNotify(wstat, Append(wkeys, k))
    /\ UNCHANGED <<wsrc, wopts, wphase, wstat, wcfg, offTwin>>

\* The source loses a row.
WDelete(k) ==
    /\ TwinMounted /\ TwinRoom
    /\ wsrc \in {"loading", "ready"}
    /\ k \in {wkeys[i] : i \in 1..Len(wkeys)}
    /\ wkeys' = SelectSeq(wkeys, LAMBDA y : y # k)
    /\ TwinNotify(wstat, SelectSeq(wkeys, LAMBDA y : y # k))
    /\ UNCHANGED <<wsrc, wopts, wphase, wstat, wcfg, offTwin>>

\* The source is marked ready: a loading live query collection becomes ready
\* and notifies.
WMarkReady ==
    /\ TwinMounted /\ TwinRoom
    /\ wsrc = "loading"
    /\ wsrc' = "ready"
    /\ LET st == [x \in Twins |-> IF wstat[x] = "loading" THEN "ready" ELSE wstat[x]]
       IN  /\ wstat' = st
           /\ TwinNotify(st, wkeys)
    /\ UNCHANGED <<wkeys, wopts, wphase, wcfg, offTwin>>

TwinInit ==
    /\ BridgeIdle
    /\ TransIdle
    /\ CondIdle
    /\ UnsafeIdle
    /\ OwnIdle
    /\ PairIdle
    /\ DispatchIdle
    /\ RoundIdle
    /\ wsrc \in {"loading", "ready"}
    /\ wkeys = <<>>
    /\ \E s \in {"unset", "true", "false"}, g \in {"unset", "zero", "positive"} :
        \E w \in [Twins -> {"unset", "true", "false"}] :
            /\ w[1] = "true" /\ w[2] \in {"unset", "false"}
            /\ wopts = [x \in Twins |->
                            [startSync |-> s, gcTime |-> g, suspendOnWaiting |-> w[x]]]
    /\ wphase = [x \in Twins |-> "unmounted"]
    /\ wstat = [x \in Twins |-> "none"]
    /\ wcfg = [x \in Twins |-> NoConfig]
    /\ wops = [x \in Twins |-> <<>>]
    /\ wvals = [x \in Twins |-> <<>>]

TwinNext ==
    \/ \E x \in Twins : WMount(x)
    \/ \E x \in Twins : WTeardown(x)
    \/ \E k \in Keys : WInsert(k)
    \/ \E k \in Keys : WDelete(k)
    \/ WMarkReady

TwinSpec == TwinInit /\ [][TwinNext]_vars

\* ================================================================== claims

\* C1: in every evaluation of a bridge cell, subscribeChanges is called before
\* the status is read for the initial value: whenever the read function is
\* about to sample the status, the cell holds a registered change callback.
C1_SubscribeBeforeSample ==
    (phase = "evaluating" /\ StepName = "sample") => subs >= 1

C1_Witness ==
    /\ phase = "evaluating"
    /\ StepName = "sample"
    /\ subs = 1
    /\ cfg.ctor = "makeQuery"

\* C2: for a mounted cell the visible value is the translation of the
\* collection's current status and entries (every notification the collection
\* issued has been delivered, since callbacks run inside the collection's
\* step); no Success stays visible once the collection is error or cleaned-up.
C2_ValueIsCurrentTranslation ==
    phase = "mounted" => value = PushedValue(cfg, status, keys)

\* C3: the status translation is total and fixed for the five statuses, on
\* both paths of all three constructors: idle and loading give
\* Initial(waiting), ready gives Success of the projection, error gives a
\* "failed to load" Failure, cleaned-up gives a "has been cleaned up" Failure.
C3_ExpectedProjection(in) ==
    IF in.cfg.ctor = "makeCollectionAtom" \/ (in.cfg.ctor = "makeQuery" /\ ~in.cfg.singleResult)
    THEN [i \in 1..Len(in.keys) |-> ValueOf(in.keys[i])]
    ELSE IF in.keys = <<>> THEN <<>> ELSE <<ValueOf(in.keys[1])>>

C3_TranslationTable ==
    tOut # NoValue =>
        /\ tIn.status \in {"idle", "loading"} =>
            (tOut.tag = "Initial" /\ tOut.waiting = TRUE)
        /\ tIn.status = "ready" =>
            (tOut.tag = "Success" /\ tOut.items = C3_ExpectedProjection(tIn))
        /\ tIn.status = "error" =>
            (tOut.tag = "Failure" /\ ErrorKind(tOut.message) = "failed to load")
        /\ tIn.status = "cleaned-up" =>
            (tOut.tag = "Failure" /\ ErrorKind(tOut.message) = "has been cleaned up")

C3_Witness ==
    /\ tOut.tag = "Failure"
    /\ tIn.status = "cleaned-up"
    /\ tIn.path = "pushed"
    /\ tIn.cfg.ctor = "makeQuery"

\* C4: no status transition is lost around the first evaluation: the value
\* the cell holds when the read function returns is the translation of the
\* status at that moment, and a mounted cell is never Initial while its
\* collection is ready.
C4_NoLostTransition ==
    /\ [](phase = "mounted" /\ status = "ready" => value.tag = "Success")
    /\ [][(phase = "evaluating" /\ phase' = "mounted")
            => value' = PushedValue(cfg, status', keys')]_vars

\* The collection became ready while the read function ran, and the read
\* function sampled the new status.
C4_Witness ==
    /\ phase = "mounted"
    /\ evalStart \in {"idle", "loading"}
    /\ sampled = "ready"
    /\ value.tag = "Success"
    /\ Len(keys) > 0

\* C5: for a collection that is loading and later marked ready: every read of
\* the mounted cell before the transition gives Initial(waiting = TRUE); at
\* the transition an attached subscriber is handed the Success of the
\* collection's entries; every read after it gives that Success; and the cell
\* never shows Success while the collection has not become ready.
C5_LoadingThenReady ==
    /\ [](phase = "mounted" /\ status = "loading" => value = ResultInitial(TRUE))
    /\ [](value.tag = "Success" => status \in {"ready", "error", "cleaned-up"})
    /\ [](phase = "mounted" /\ status = "ready" => value = PushedValue(cfg, "ready", keys))
    /\ [][(phase = "mounted" /\ listeners > 0 /\ status = "loading" /\ status' = "ready")
            => (delivered' = PushedValue(cfg, "ready", keys') /\ value' = delivered')]_vars

\* A subscriber of a makeCollectionAtom cell has been handed Success with the
\* three entities, in order.
C5_Witness ==
    /\ cfg.ctor = "makeCollectionAtom"
    /\ phase = "mounted"
    /\ evalStart = "loading"
    /\ sampled = "loading"
    /\ status = "ready"
    /\ listeners > 0
    /\ delivered = ResultSuccess("array", <<ValueOf(1), ValueOf(2), ValueOf(3)>>)

\* C6: tearing a cell down releases its subscription exactly once: after the
\* teardown the cell holds no live subscription and unsubscribe has been
\* called once on the one it opened, never twice; and no notification after
\* the teardown runs the cell's callback, pushes a value into the cell or
\* reaches a subscriber.
C6_ReleasedOnceThenSilent ==
    /\ [](phase = "unmounted" => subs = 0)
    /\ [](unsubCalls <= 1 /\ ~lateCalls)
    /\ [][(phase = "mounted" /\ phase' = "unmounted") => (unsubCalls' = 1 /\ subs' = 0)]_vars
    /\ [][(phase = "unmounted" /\ phase' = "unmounted")
            => (value' = value /\ delivered' \in {delivered, NoValue})]_vars

\* A finalized cell whose collection has since committed entries, with a
\* subscriber still attached to the cell.
C6_Witness ==
    /\ phase = "unmounted"
    /\ unsubCalls = 1
    /\ subs = 0
    /\ sampled = "none"
    /\ status = "ready"
    /\ Len(keys) > 0
    /\ listeners > 0
    /\ value = NoValue

\* C7: a cell holds at most one live subscription to its collection: exactly
\* one while mounted, none once finalized, also after mount/unmount cycles.
C7_AtMostOneSubscription ==
    /\ subs <= 1
    /\ (phase = "mounted" => subs = 1)
    /\ (phase = "unmounted" => subs = 0)
    /\ (phase = "evaluating" => finalizers <= subs)

\* The cell is mounted a second time, with one subscription.
C7_Witness ==
    /\ remounted
    /\ phase = "mounted"
    /\ subs = 1
    /\ finalizers = 1

\* C8: when the descriptor given to makeQueryConditional returns null or
\* undefined, whatever builder methods it touched first, the mounted cell's
\* value is absent, and the evaluation created no collection, started no sync,
\* ran the descriptor on no real builder, and left no subscription and no
\* cleanup action; this stays so while the query's result changes.
C8_DisabledIsAbsent ==
    (kphase = "mounted" /\ descr.ret \in {"null", "undefined"}) =>
        /\ kvalue = Absent
        /\ ~kcreated
        /\ ~ksync
        /\ realRuns = 0
        /\ ksubs = 0
        /\ kfinalizers = 0

\* A descriptor that chained builder methods and then returned undefined is
\* mounted, and the query's result has since become ready and gained a row.
C8_Witness ==
    /\ kphase = "mounted"
    /\ descr.ret = "undefined"
    /\ Len(descr.chain) > 0
    /\ kvalue = Absent
    /\ rstatus = "ready"
    /\ rkeys # <<>>

C10_ProbeIsInert ==
    /\ ~kthrew
    /\ kphase # "threw"
    /\ kphase \in {"probing", "decided"} =>
        /\ ~kcreated
        /\ ~ksync
        /\ realRuns = 0
        /\ cbRun = 0
        /\ probeRuns = 1
    /\ kphase = "probing" => kobj = (IF kpos % 2 = 1 THEN "function" ELSE "proxy")

\* The probe of a longest chain that passes a callback to where has returned.
C10_Witness ==
    /\ kphase = "decided"
    /\ descr.ret = "built"
    /\ Len(descr.chain) = MaxChain
    /\ CallbacksOf(descr) > 0
    /\ kpos = 2 * MaxChain
    /\ query = "proxy"

\* C11: makeQueryUnsafe yields the projection value when its makeQuery cell
\* holds a Success, and undefined when that holds Initial or a Failure; it
\* throws for none of them.
C11_UnsafeCollapses ==
    uOut # NoValue =>
        /\ uOut # Thrown
        /\ tOut.tag \in {"Initial", "Failure"} => uOut = Absent
        /\ (tOut.tag = "Success" /\ tOut.shape = "undefined") => uOut = Absent
        /\ (tOut.tag = "Success" /\ tOut.shape # "undefined") =>
            (uOut.tag = "Value" /\ uOut.shape = tOut.shape /\ uOut.items = tOut.items)

\* makeQueryUnsafe has turned a Failure into undefined.
C11_Witness ==
    /\ tOut.tag = "Failure"
    /\ uOut = Absent

\* The value makeQueryUnsafe shows for a ready query with the given rows.
C12_Projection(ks) == makeQueryUnsafe(ProjectQuery(usingle, CollectionEntries(ks)))

\* C12: if the source of a makeQueryUnsafe query becomes ready and stays
\* ready while the cell stays mounted, then from some point on the cell always
\* holds the projection of some rows of the source, and again and again it is
\* at rest holding the projection of the current rows: the evaluations caused
\* by pushes into the makeQuery cell end, and none returns it to the
\* undefined of a waiting query.
C12_UnsafeSettles ==
    <>[](sstatus = "ready" /\ uphase # "unmounted") =>
        /\ <>[](\E ks \in KeySeqs : uvalue = C12_Projection(ks))
        /\ []<>(uphase = "mounted" /\ uvalue = C12_Projection(skeys))

\* The unsafe cell is at rest with two rows, which reached it through pushes
\* and the evaluations they caused.
C12_Witness ==
    /\ uphase = "mounted"
    /\ sstatus = "ready"
    /\ uvalue.tag = "Value"
    /\ Len(uvalue.items) = 2
    /\ uvalue = C12_Projection(skeys)

\* C13: in every step in which the collection of a mounted cell reaches
\* error, the cell's value becomes a "failed to load" Failure, and in every
\* step in which a ready collection of a mounted cell becomes cleaned-up, the
\* value becomes a "has been cleaned up" Failure; the two kinds differ.
C13_FailureOnErrorAndCleanup ==
    [][(phase = "mounted" /\ phase' = "mounted") =>
        /\ (status # "error" /\ status' = "error") =>
            (value'.tag = "Failure" /\ ErrorKind(value'.message) = "failed to load")
        /\ (status = "ready" /\ status' = "cleaned-up") =>
            (value'.tag = "Failure" /\ ErrorKind(value'.message) = "has been cleaned up")]_vars

\* C14: in single-projection mode (makeSingleCollectionAtom, and makeQuery
\* with config.singleResult) a ready collection without entries gives Success
\* of undefined, on the initial and on the pushed path.
C14_SingleEmptyIsSuccessUndefined ==
    (/\ tOut # NoValue
     /\ tIn.status = "ready"
     /\ tIn.keys = <<>>
     /\ \/ tIn.cfg.ctor = "makeSingleCollectionAtom"
        \/ tIn.cfg.ctor = "makeQuery" /\ tIn.cfg.singleResult)
        => tOut = ResultSuccess("undefined", <<>>)

\* The change callback of makeSingleCollectionAtom has pushed for a ready,
\* empty collection.
C14_Witness ==
    /\ tOut.tag = "Success"
    /\ tOut.shape = "undefined"
    /\ tIn.cfg.ctor = "makeSingleCollectionAtom"
    /\ tIn.path = "pushed"
    /\ tIn.keys = <<>>

\* C15: in array-projection mode (makeCollectionAtom, and makeQuery without
\* config.singleResult) a ready collection without entries gives Success of
\* the empty array, on the initial and on the pushed path.
C15_ArrayEmptyIsSuccessEmpty ==
    (/\ tOut # NoValue
     /\ tIn.status = "ready"
     /\ tIn.keys = <<>>
     /\ \/ tIn.cfg.ctor = "makeCollectionAtom"
        \/ tIn.cfg.ctor = "makeQuery" /\ ~tIn.cfg.singleResult)
        => tOut = ResultSuccess("array", <<>>)

\* The read function of makeCollectionAtom has returned for a ready, empty
\* collection.
C15_Witness ==
    /\ tOut.tag = "Success"
    /\ tOut.shape = "array"
    /\ tOut.items = <<>>
    /\ tIn.cfg.ctor = "makeCollectionAtom"
    /\ tIn.path = "initial"

\* C16: in array-projection mode the Success holds one value per entry of the
\* collection, the i-th value being that of the i-th entry in the iteration
\* order of entries(): nothing is dropped, repeated or reordered.
C16_ArrayKeepsEntriesInOrder ==
    (/\ tOut # NoValue
     /\ tIn.status = "ready"
     /\ \/ tIn.cfg.ctor = "makeCollectionAtom"
        \/ tIn.cfg.ctor = "makeQuery" /\ ~tIn.cfg.singleResult)
        => /\ tOut.tag = "Success"
           /\ Len(tOut.items) = Len(tIn.keys)
           /\ \A i \in 1..Len(tIn.keys) : tOut.items[i] = CollectionEntries(tIn.keys)[i][2]

\* A collection whose iteration order is not the key order has been projected.
C16_Witness ==
    /\ tOut.tag = "Success"
    /\ tOut.shape = "array"
    /\ Len(tIn.keys) = MaxEntities
    /\ tIn.keys[1] > tIn.keys[2]
    /\ tOut.items[1] = ValueOf(tIn.keys[1])

\* C17: no read function and no change callback throws, whatever the
\* collection's status and content: what a cell returns, holds and delivers is
\* always Initial, Success or Failure (or nothing yet), an error or cleaned-up
\* status shows only as a Failure value, and a cell holding a Failure is
\* still mounted with its subscription and its cleanup action in place.
C17_NeverThrows ==
    /\ \A v \in {value, retval, delivered} :
        v.tag \in {"NoValue", "Initial", "Success", "Failure"}
    /\ (phase = "mounted" /\ value.tag = "Failure") =>
        (subs = 1 /\ finalizers = 1 /\ unsubCalls = 0)
    /\ (phase = "mounted" /\ sampled \in {"error", "cleaned-up"} /\ status = sampled
            /\ evalStart = sampled) =>
        value.tag = "Failure"

\* A subscribed cell has been handed the Failure of a collection that was
\* cleaned up while the cell was mounted, and still holds its subscription.
C17_Witness ==
    /\ phase = "mounted"
    /\ status = "cleaned-up"
    /\ sampled \in {"loading", "ready"}
    /\ value.tag = "Failure"
    /\ ErrorKind(value.message) = "has been cleaned up"
    /\ listeners > 0
    /\ delivered = value
    /\ subs = 1

\* C18 as stated: the first statement of every read function, makeQuery's
\* included, leaves the cell's collection with its sync started, and leaves
\* the status and the entries of a collection that was already loading or
\* ready as they were (makeQuery's collection is new, so has none to keep).
C18_SyncTriggeredForEveryCell ==
    [][(phase = "evaluating" /\ pc = 1 /\ pc' = 2) =>
        /\ status' # "idle"
        /\ (cfg.ctor # "makeQuery" /\ status \in {"loading", "ready"}) =>
            (status' = status /\ keys' = keys)]_vars

\* C18, amended: the first statement of the read function of
\* makeCollectionAtom and makeSingleCollectionAtom starts the sync of an idle
\* collection and leaves the status and the entries of a loading or ready
\* one as they were; makeQuery creates its collection with the sync started
\* unless the option startSync is false, and then leaves it idle.
C18_SyncTriggeredUnlessDisabled ==
    [][(phase = "evaluating" /\ pc = 1 /\ pc' = 2) =>
        /\ (cfg.ctor = "makeQuery" /\ cfg.startSync = "false") => status' = "idle"
        /\ ~(cfg.ctor = "makeQuery" /\ cfg.startSync = "false") => status' # "idle"
        /\ (cfg.ctor # "makeQuery" /\ status = "idle") => status' = "loading"
        /\ (cfg.ctor # "makeQuery" /\ status \in {"loading", "ready"}) =>
            (status' = status /\ keys' = keys)]_vars

\* startSyncImmediate() has just run on a collection that was ready and had
\* rows before the cell was first evaluated.
C18_Witness ==
    /\ cfg.ctor = "makeCollectionAtom"
    /\ phase = "evaluating"
    /\ pc = 2
    /\ ~remounted
    /\ evalStart = "ready"
    /\ status = "ready"
    /\ keys # <<>>

C20_CollectionTornDownAfterFinalize ==
    \A i \in CollIds : (Alive(i) /\ csubs[i] = {}) ~> (cstat[i] = "cleaned-up")

\* C21: a step of a makeCollectionAtom or makeSingleCollectionAtom cell
\* (starting or continuing its read function, being finalized, gaining or
\* losing a subscriber) leaves the caller's collection's entries unchanged
\* and never moves it to cleaned-up; the one statement of the cell that may
\* change the collection's status is the start-sync trigger, and the cell
\* holds at most the subscription it made.
C21_CellStep == phase' # phase \/ pc' # pc \/ listeners' # listeners

C21_CallerCollectionUntouched ==
    [][(cfg.ctor # "makeQuery" /\ C21_CellStep) =>
        /\ keys' = keys
        /\ (status' = "cleaned-up" => status = "cleaned-up")
        /\ (status' # status => (phase = "evaluating" /\ StepName = "startSync"))
        /\ subs' \in {subs, subs + 1, subs - 1}]_vars

\* A cell over the caller's collection was mounted, read and finalized while
\* the collection was ready with all its entities, and the collection is so
\* still.
C21_Witness ==
    /\ cfg.ctor # "makeQuery"
    /\ phase = "unmounted"
    /\ unsubCalls > 0
    /\ subs = 0
    /\ sampled = "none"
    /\ status = "ready"
    /\ Len(keys) = MaxEntities

\* C25 as stated: once a cell over the caller's collection has been
\* finalized and has a subscriber again, every later insert, delete or
\* markReady of the collection hands that subscriber the translation of the
\* collection's full current contents.
C25_ContentChange ==
    /\ status' \in {"loading", "ready"}
    /\ keys' # keys \/ (status = "loading" /\ status' = "ready")

C25_DeliversCurrent ==
    /\ value' = delivered'
    /\ status' = "loading" => delivered' = ResultInitial(TRUE)
    /\ status' = "ready" =>
        /\ delivered'.tag = "Success"
        /\ delivered'.items = C3_ExpectedProjection([cfg |-> cfg, keys |-> keys'])

C29_OptionsPassedWithDefaults ==
    \A i \in CollIds : cstat[i] # "none" =>
        /\ ostart = "unset" => ccfg[i].startSync = TRUE
        /\ ostart = "true" => ccfg[i].startSync = TRUE
        /\ ostart = "false" => ccfg[i].startSync = FALSE
        /\ ogc = "unset" => ccfg[i].gcTime = "zero"
        /\ ogc = "zero" => ccfg[i].gcTime = "zero"
        /\ ogc = "positive" => ccfg[i].gcTime = "positive"
        /\ ostart = "false" <=> cstat[i] = "idle"

\* Both cells were mounted with startSync: false and gcTime: 0 over a ready
\* source that holds rows: their collections are idle and they wait.
C29_Witness ==
    /\ ostart = "false"
    /\ ogc = "zero"
    /\ osrc = "ready"
    /\ Len(okeys) > 0
    /\ \A c \in Cells :
        /\ ophase[c] = "mounted"
        /\ cstat[ocoll[c]] = "idle"
        /\ ccfg[ocoll[c]] = [startSync |-> FALSE, gcTime |-> "zero"]
        /\ ovalue[c] = ResultInitial(TRUE)

\* C27: cells over different collections are independent: a step that leaves
\* a cell's own collection and the cell's mounting alone leaves the cell's
\* value alone; and a mounted cell is Success, with its own collection's
\* entities, exactly when its own collection is ready, and Initial(waiting)
\* until then, whatever the status of the other collection.
C27_CellsIndependent ==
    /\ [](\A c \in Pair : pphase[c] = "mounted" =>
            /\ pvalue[c].tag = "Success" <=> pstat[c] = "ready"
            /\ pstat[c] # "ready" => pvalue[c] = ResultInitial(TRUE)
            /\ pstat[c] = "ready" =>
                pvalue[c].items = [i \in 1..Len(pkeys[c]) |-> ValueOf(pkeys[c][i])])
    /\ [][\A c \in Pair :
            (pstat'[c] = pstat[c] /\ pkeys'[c] = pkeys[c] /\ pphase'[c] = pphase[c])
                => pvalue'[c] = pvalue[c]]_vars

\* Both cells are mounted; the first collection is ready and its cell shows
\* its entities, the second holds other entities, is still loading, and its
\* cell waits.
C27_Witness ==
    /\ pphase[1] = "mounted"
    /\ pphase[2] = "mounted"
    /\ pstat[1] = "ready"
    /\ pstat[2] = "loading"
    /\ pvalue[1] = ResultSuccess("array", <<ValueOf(1)>>)
    /\ pkeys[2] = <<2, 3>>
    /\ pvalue[2] = ResultInitial(TRUE)

\* C22: while no subscriber's callback has thrown and no dispatch is under
\* way, two subscribers of the cell that registered at the same point of the
\* cell's history have been called with identical sequences of values, and
\* each subscriber has been called once for every value dispatched since it
\* registered.
C22_SameSequences ==
    (dq = <<>> /\ ~threw) =>
        /\ \A s, t \in Range(regs) : joined[s] = joined[t] => seen[s] = seen[t]
        /\ \A s \in Range(regs) : Len(seen[s]) = Len(hist) - joined[s]

\* Two subscribers attached before the first read have both seen Initial,
\* then the Success values of two changes of the collection.
C22_Witness ==
    /\ ~threw
    /\ dq = <<>>
    /\ Len(regs) = MaxListeners
    /\ \A s \in Range(regs) : joined[s] = 0 /\ Len(seen[s]) = MaxDispatched
    /\ seen[1][1] = ResultInitial(TRUE)
    /\ seen[1][MaxDispatched].tag = "Success"
    /\ seen[1][MaxDispatched].items # <<>>

\* C23: while no subscriber's callback has thrown, the listeners a dispatch
\* has called followed by those it has still to call are the subscribers in
\* registration order, so that each is called exactly once and in that
\* order; and every listener it has called was called with the value being
\* dispatched.
C23_RegistrationOrder ==
    (~threw /\ (called # <<>> \/ dq # <<>>)) =>
        /\ called \o dq = regs
        /\ \A i \in 1..Len(called) :
            /\ seen[called[i]] # <<>>
            /\ seen[called[i]][Len(seen[called[i]])] = dvalue

\* A dispatch of a pushed value has called all subscribers, which registered
\* in the order 2, 1.
C23_Witness ==
    /\ ~threw
    /\ dq = <<>>
    /\ regs = <<2, 1>>
    /\ called = <<2, 1>>
    /\ pushes # <<>>
    /\ dvalue = pushes[Len(pushes)]

\* C24: a step that removes one subscriber while others remain leaves the
\* cell mounted with its value and leaves what the others have seen as it
\* is; the cell's subscription to the collection is released only when no
\* subscriber is left; a callback that is not registered is never called;
\* and while no callback has thrown every remaining subscriber has seen
\* exactly the values dispatched since it registered.
C24_PartialUnsubscribe ==
    /\ [][(Len(regs') < Len(regs) /\ regs' # <<>>) =>
            /\ dmounted' = dmounted
            /\ dvalue' = dvalue
            /\ \A s \in Range(regs') : seen'[s] = seen[s]]_vars
    /\ [][(dmounted /\ ~dmounted') => regs = <<>>]_vars
    /\ [][\A s \in SubIds : (s \notin Range(regs) /\ s \notin Range(regs'))
            => seen'[s] = seen[s]]_vars
    /\ []((dq = <<>> /\ ~threw) =>
            \A s \in Range(regs) : seen[s] = SubSeq(hist, joined[s] + 1, Len(hist)))

\* Subscriber 2 left after the first value; subscriber 1 stayed and has seen
\* every value, the cell being still mounted.
C24_Witness ==
    /\ ~threw
    /\ dq = <<>>
    /\ dmounted
    /\ regs = <<1>>
    /\ joined[1] = 0
    /\ seen[1] = hist
    /\ Len(hist) = MaxDispatched
    /\ seen[2] = <<>>
    /\ called = <<1>>

\* C28: when a dispatch has ended, every subscriber of the cell has been
\* called with the dispatched value, whether or not one of the callbacks
\* threw.
C28_DeliveredDespiteFailure ==
    (dq = <<>> /\ called # <<>>) =>
        \A s \in Range(regs) :
            /\ s \in Range(called)
            /\ seen[s] # <<>>
            /\ seen[s][Len(seen[s])] = dvalue

\* C30: the values the callback pushed are, one for one and in order, the
\* translations of the notifications the collection delivered while the cell
\* was subscribed, and each push is made in the step of its notification and
\* is the cell's value at the end of that step.
C30_Translated(n) ==
    IF n.status = "ready"
    THEN ResultSuccess("array", [i \in 1..Len(n.keys) |-> ValueOf(n.keys[i])])
    ELSE ResultInitial(TRUE)

C30_OnePushPerNotification ==
    /\ [](/\ Len(pushes) = Len(notes)
          /\ \A i \in 1..Len(notes) : pushes[i] = C30_Translated(notes[i]))
    /\ [][notes' # notes =>
            /\ Len(notes') = Len(notes) + 1
            /\ Len(pushes') = Len(pushes) + 1
            /\ dvalue' = pushes'[Len(pushes')]
            /\ dvalue' = C30_Translated(notes'[Len(notes')])]_vars

\* Two notifications of a loading collection, both translated to
\* Initial(waiting), were each pushed.
C30_Witness ==
    /\ Len(notes) = 2
    /\ Len(pushes) = 2
    /\ pushes[1] = ResultInitial(TRUE)
    /\ pushes[2] = ResultInitial(TRUE)
    /\ notes[1].keys # notes[2].keys

\* C26: in array projection mode, over a collection that was ready and
\* empty, after n insert transactions followed by n delete transactions of
\* the same entities, in whatever order, the cell's value is Success with
\* the empty sequence, as it was before the first insert; and in between it
\* is Success with the entities not yet deleted.
C26_RoundTripToEmpty ==
    /\ (rtins = rtn /\ rtdel = rtn /\ rtvalue # NoValue) =>
        (rtvalue.tag = "Success" /\ rtvalue.shape = "array" /\ rtvalue.items = <<>>)
    /\ rtvalue # NoValue =>
        (rtvalue.tag = "Success" /\ Len(rtvalue.items) = rtins - rtdel)

\* Three entities were inserted and then deleted, the one inserted second
\* last of all, and the cell shows the empty sequence.
C26_Witness ==
    /\ rtn = MaxEntities
    /\ rtins = rtn
    /\ rtdel = rtn
    /\ rtkeys = <<>>
    /\ rtvalue = ResultSuccess("array", <<>>)

\* C31: for each of the three constructors the read function's tail and the
\* change callback map (status, entries) to the same Result: whichever path
\* computed the value, it equals what the other path yields for the same
\* status and entries (variant, projection and error message alike).
C31_SameTranslationOnBothPaths ==
    tOut # NoValue =>
        /\ tOut = InitialValue(tIn.cfg, tIn.status, tIn.keys)
        /\ tOut = PushedValue(tIn.cfg, tIn.status, tIn.keys)

C31_Witness ==
    /\ tIn.path = "pushed"
    /\ tIn.cfg.ctor = "makeSingleCollectionAtom"
    /\ tIn.status = "ready"
    /\ Len(tIn.keys) >= 2
    /\ tOut = InitialValue(tIn.cfg, tIn.status, tIn.keys)
    /\ tOut.tag = "Success"

\* The cell projects a single value: makeSingleCollectionAtom, or makeQuery
\* over a collection whose config.singleResult is true.
C35_SingleMode(c) ==
    \/ c.ctor = "makeSingleCollectionAtom"
    \/ c.ctor = "makeQuery" /\ c.singleResult

\* C35: in single projection on a ready collection with at least one entry,
\* the Success carries the value of the first entry in iteration order, and
\* every other entry sequence with the same first entry gives the same value.
C35_FirstEntryOnly ==
    (/\ tOut # NoValue
     /\ C35_SingleMode(tIn.cfg)
     /\ tIn.status = "ready"
     /\ Len(tIn.keys) >= 1)
    => /\ tOut = ResultSuccess("single", <<ValueOf(tIn.keys[1])>>)
       /\ \A ks \in KeySeqs :
            (Len(ks) >= 1 /\ ks[1] = tIn.keys[1])
            => Translate([tIn EXCEPT !.keys = ks]) = tOut

C35_Witness ==
    /\ C35_SingleMode(tIn.cfg)
    /\ tIn.status = "ready"
    /\ Len(tIn.keys) = MaxEntities
    /\ tOut = ResultSuccess("single", <<ValueOf(tIn.keys[1])>>)

\* C36: a makeQuery cell over a ready collection projects a single value
\* (the first row, or undefined when there is none) exactly when the created
\* collection's config.singleResult is true, and the sequence of all rows
\* otherwise, on the first read and on a push alike; so a query that yields
\* at most one row without the flag gives a sequence of that length.
C36_ModeFollowsSingleResult ==
    (tOut # NoValue /\ tIn.cfg.ctor = "makeQuery" /\ tIn.status = "ready")
    => /\ tIn.cfg.singleResult <=> tOut.shape \in {"single", "undefined"}
       /\ ~tIn.cfg.singleResult <=> tOut.shape = "array"
       /\ tIn.cfg.singleResult => tOut = ProjectSingle(CollectionEntries(tIn.keys))
       /\ ~tIn.cfg.singleResult =>
            /\ tOut = ResultSuccess("array", [i \in 1..Len(tIn.keys) |-> ValueOf(tIn.keys[i])])
            /\ Len(tOut.items) = Len(tIn.keys)
       /\ \A p \in {"initial", "pushed"} : Translate([tIn EXCEPT !.path = p]).shape = tOut.shape

C36_Witness ==
    /\ tIn.cfg.ctor = "makeQuery"
    /\ ~tIn.cfg.singleResult
    /\ tIn.status = "ready"
    /\ Len(tIn.keys) = 1
    /\ tIn.path = "pushed"
    /\ tOut = ResultSuccess("array", <<ValueOf(tIn.keys[1])>>)

\* C32: the rows are listed and projected only when the status is ready.
\* For idle, loading, error and cleaned-up neither path reads
\* collection.entries(), and the value it yields is the same whatever the
\* collection holds; for ready the rows are read once, after the status.
C32_ProjectorOnlyWhenReady ==
    tOut # NoValue =>
        /\ tReads[1] = "status"
        /\ tIn.status # "ready" =>
            /\ \A i \in 1..Len(tReads) : tReads[i] # "entries"
            /\ \A ks \in KeySeqs : Translate([tIn EXCEPT !.keys = ks]) = tOut
            /\ tOut.tag # "Success"
        /\ tIn.status = "ready" =>
            /\ Cardinality({i \in 1..Len(tReads) : tReads[i] = "entries"}) = 1
            /\ tOut.tag = "Success"

C32_Witness ==
    /\ tIn.status = "cleaned-up"
    /\ tIn.path = "pushed"
    /\ Len(tIn.keys) = MaxEntities
    /\ tOut.tag = "Failure"
    /\ tReads = <<"status">>

C34_ProbeOnceThenRealOnce ==
    /\ [](/\ kphase \in {"probing", "decided"} => (probeRuns = 1 /\ realRuns = 0)
          /\ kphase \in {"mounted", "invalid"} =>
                /\ probeRuns = 1
                /\ descr.ret \in {"null", "undefined"} => realRuns = 0
                /\ descr.ret = "built" => realRuns = 1
          /\ realRuns <= probeRuns)
    /\ [][realRuns' > realRuns =>
            (kphase = "decided" /\ probeRuns = 1 /\ realRuns = 0 /\ probeRuns' = 1)]_vars

\* A second evaluation of an enabled cell has ended: one stand-in call, one
\* real call.
C34_Witness ==
    /\ kphase = "mounted"
    /\ reevaluated
    /\ descr.ret = "built"
    /\ Len(descr.chain) = MaxChain
    /\ probeRuns = 1
    /\ realRuns = 1

\* C39: whether a makeQueryConditional cell is disabled is decided by what
\* the stand-in call returned and by nothing else.  Once the call has
\* returned, the flag is set exactly when it returned null or undefined,
\* however many builder methods the descriptor read and called before; and
\* an evaluation that ended yields undefined without creating a collection in
\* that case, and a Result of a created collection in every other case, a
\* descriptor that returned the untouched builder included.
C39_DecisionFromReturnValueOnly ==
    /\ kphase \in {"decided", "mounted", "invalid"} =>
            (queryReturnsNull <=> descr.ret \in {"null", "undefined"})
    /\ kphase \in {"mounted", "invalid"} =>
            /\ descr.ret \in {"null", "undefined"} =>
                    (kvalue = Absent /\ ~kcreated /\ ksubs = 0 /\ realRuns = 0)
            /\ descr.ret = "built" =>
                    (kvalue.tag \in {"Initial", "Success", "Failure"} /\ kcreated /\ ksubs = 1)

\* A descriptor that called MaxChain builder methods on the stand-in and then
\* returned undefined: the cell is disabled.
C39_Witness ==
    /\ kphase = "mounted"
    /\ Len(descr.chain) = MaxChain
    /\ descr.ret = "undefined"
    /\ kpos = 2 * MaxChain
    /\ queryReturnsNull
    /\ kvalue = Absent
    /\ ~kcreated

\* C38: an evaluation that subscribed has registered exactly one cleanup
\* action for that subscription by the time the status is sampled, so
\* whichever branch the status takes (idle, loading, ready, error,
\* cleaned-up) the evaluation returns with one subscription and one cleanup;
\* and a subscription is only ever released, and unsubscribe only ever
\* called, by that cleanup when the runtime tears the cell down.
C38_OneCleanupPerSubscription ==
    /\ [](/\ finalizers <= 1
          /\ (phase = "evaluating" /\ StepName = "sample") => (subs = 1 /\ finalizers = 1)
          /\ phase = "mounted" => (sampled \in Statuses /\ subs = 1 /\ finalizers = 1)
          /\ phase = "unmounted" => finalizers = 0)
    /\ [][(subs' < subs \/ unsubCalls' > unsubCalls)
            => (phase = "mounted" /\ phase' = "unmounted" /\ finalizers = 1 /\ finalizers' = 0)]_vars

\* An evaluation that sampled a cleaned-up collection returned with its
\* subscription and its cleanup in place.
C38_Witness ==
    /\ phase = "mounted"
    /\ sampled = "cleaned-up"
    /\ value.tag = "Failure"
    /\ subs = 1
    /\ finalizers = 1

C37_SuspendOnWaitingIgnored ==
    /\ wopts[1].suspendOnWaiting # wopts[2].suspendOnWaiting
    /\ TwinSettled =>
        /\ wcfg[1] = wcfg[2]
        /\ wstat[1] = wstat[2]
        /\ wops[1] = wops[2]
        /\ wvals[1] = wvals[2]

\* One cell asked to suspend on waiting, the other did not; both were
\* mounted over a loading source and have since shown MaxValues values, the
\* last a Success.
C37_Witness ==
    /\ wopts[1].suspendOnWaiting = "true"
    /\ wopts[2].suspendOnWaiting = "false"
    /\ wphase[1] = "mounted"
    /\ wphase[2] = "mounted"
    /\ Len(wvals[1]) = MaxValues
    /\ wvals[1][1] = ResultInitial(TRUE)
    /\ wvals[2][MaxValues].tag = "Success"
    /\ wvals[1] = wvals[2]

====
